---- MODULE Spec2Model ----
(***************************************************************************)
(* GreenPoint backend: the CSV species table, the handler of               *)
(* POST /api/get-combined-data, the three source clients (NASA POWER,      *)
(* OpenWeatherMap, Open-EPI soil with retry) and the Gemini analysis call. *)
(* GreenPoint page (Analyzepage.vue): the plant search box.                *)
(*                                                                         *)
(* JavaScript values are encoded as records of one shape, strings as       *)
(* sequences of one-character strings, messages as sequences of tokens,    *)
(* and an optional value as a sequence of length 0 or 1.                   *)
(***************************************************************************)
EXTENDS Integers, Sequences, FiniteSets, TLC

VARIABLES
    plantData,      \* the global species table, filled by the CSV 'data' events
    csvPos,         \* number of CSV rows already delivered by the stream
    csvEnded,       \* the stream's 'end' event has fired
    model,          \* gemini.js: the module-level model, "configured" or "null"
    pc,             \* the handler's position: idle / fetching / analysing / responded
    req,            \* the body of the request being handled
    plantInfo,      \* the record found by the lookup (optional)
    nasa,           \* state of the fetchNasaPowerAPI call
    ow,             \* state of the fetchOpenWeatherAPI call
    soil,           \* state of the fetchSoilAPIWithRetry call
    calls,          \* instrumentation: invocations made for the current request
    aggregatedData, \* the aggregated record (optional)
    analysisArg,    \* the record handed to getAnalysisFromGemini (optional)
    gemini,         \* what the analysis backend did for the current request (optional)
    responses,      \* the responses sent for the current request
    handlers,       \* invocations of the POST handler running side by side, each
                    \* with its own locals
    allPlants,            \* Analyzepage.vue: the table fetched from /api/plants
    plantsFetched,        \* fetchAllPlants has returned
    plantSearchInput,     \* the text of the search box
    plant,                \* the selected scientific name
    plantSuggestions,     \* the suggestion list
    showPlantSuggestions, \* the list is displayed
    showAnalysisModal,    \* the analysis modal is open
    isLoadingAnalysis,    \* a request of triggerAnalysis is in flight
    analysisResult,       \* the analysis text of the response shown (optional)
    feasibilityScore,     \* the score parsed from the text, or null
    sustainabilityScore,  \* the score parsed from the text, or null
    analysisPosts,        \* instrumentation: the payloads of the axios.post requests of
                          \* triggerAnalysis that are in flight
    location,             \* Homepage.vue: the text of the location box
    suggestions,          \* the location suggestions shown
    debounceTimer,        \* the handle kept of the last timer set (0: null)
    timers,               \* the handles of the timers that are pending
    geoRequests,          \* the geocoding requests in flight
    geoIssued,            \* instrumentation: how many geocoding requests were issued
    suggestionsOf         \* instrumentation: the request whose answer wrote the
                          \* suggestions last (0: none)

analysisVars == <<showAnalysisModal, isLoadingAnalysis, analysisResult, feasibilityScore,
                  sustainabilityScore, analysisPosts>>

homeVars == <<location, suggestions, debounceTimer, timers, geoRequests, geoIssued,
              suggestionsOf>>

analyzeVars == <<allPlants, plantsFetched, plantSearchInput, plant, plantSuggestions,
                 showPlantSuggestions, analysisVars>>

pageVars == <<analyzeVars, homeVars>>

requestVars == <<plantData, csvPos, csvEnded, model, pc, req, plantInfo, nasa, ow, soil,
                 calls, aggregatedData, analysisArg, gemini, responses>>

serverVars == <<requestVars, handlers>>

vars == <<serverVars, pageVars>>

\* the data() of the component
PageInit ==
    /\ allPlants = <<>>
    /\ plantsFetched = FALSE
    /\ plantSearchInput = <<>>
    /\ plant = <<>>
    /\ plantSuggestions = <<>>
    /\ showPlantSuggestions = FALSE
    /\ showAnalysisModal = FALSE
    /\ isLoadingAnalysis = FALSE
    /\ analysisResult = <<>>
    /\ feasibilityScore = [t |-> "null", n |-> 0, s |-> <<>>]
    /\ sustainabilityScore = [t |-> "null", n |-> 0, s |-> <<>>]
    /\ analysisPosts = <<>>
    /\ location = <<>>
    /\ suggestions = <<>>
    /\ debounceTimer = 0
    /\ timers = {}
    /\ geoRequests = {}
    /\ geoIssued = 0
    /\ suggestionsOf = 0

---------------------------------------------------------------------------
(* JavaScript values *)

Undefined == [t |-> "undefined", n |-> 0, s |-> <<>>]
Null == [t |-> "null", n |-> 0, s |-> <<>>]
NaN == [t |-> "NaN", n |-> 0, s |-> <<>>]
Num(k) == [t |-> "number", n |-> k, s |-> <<>>]
Str(chars) == [t |-> "string", n |-> 0, s |-> chars]

\* JavaScript truthiness of a value
Truthy(v) ==
    CASE v.t = "undefined" -> FALSE
      [] v.t = "null" -> FALSE
      [] v.t = "NaN" -> FALSE
      [] v.t = "number" -> v.n # 0
      [] v.t = "string" -> v.s # <<>>

LowerChar(c) ==
    CASE c = "Z" -> "z"
      [] c = "E" -> "e"
      [] c = "A" -> "a"
      [] c = "M" -> "m"
      [] c = "K" -> "k"
      [] c = "F" -> "f"
      [] c = "S" -> "s"
      [] OTHER -> c

\* String.prototype.toLowerCase on the characters of a string
ToLowerCase(chars) == [i \in 1..Len(chars) |-> LowerChar(chars[i])]

Digits == {"0", "1", "2", "3", "4", "5", "6", "7", "8", "9"}

DigitValue(c) ==
    CASE c = "0" -> 0 [] c = "1" -> 1 [] c = "2" -> 2 [] c = "3" -> 3 [] c = "4" -> 4
      [] c = "5" -> 5 [] c = "6" -> 6 [] c = "7" -> 7 [] c = "8" -> 8 [] c = "9" -> 9

RECURSIVE DigitPrefix(_, _)
\* value of the digits of chars[1..k]
DigitPrefix(chars, k) ==
    IF k = 0 THEN 0 ELSE 10 * DigitPrefix(chars, k - 1) + DigitValue(chars[k])

\* length of the longest prefix of digits
NumPrefixLen(chars) ==
    LET stops == {i \in 1..Len(chars) : chars[i] \notin Digits}
    IN IF stops = {} THEN Len(chars)
       ELSE (CHOOSE i \in stops : \A j \in stops : i <= j) - 1

\* parseFloat of a text: the number its leading digits spell, NaN when it has none
ParseFloatText(chars) ==
    IF NumPrefixLen(chars) = 0 THEN NaN
    ELSE Num(DigitPrefix(chars, NumPrefixLen(chars)))

\* the text String(v) that parseFloat works on
ToText(v) ==
    CASE v.t = "undefined" -> <<"u", "n", "d", "e", "f", "i", "n", "e", "d">>
      [] v.t = "null" -> <<"n", "u", "l", "l">>
      [] v.t = "NaN" -> <<"N", "a", "N">>
      [] v.t = "string" -> v.s
      [] OTHER -> <<>>

\* parseFloat(v): a number stays itself, anything else goes through its text
ParseFloat(v) == IF v.t = "number" THEN v ELSE ParseFloatText(ToText(v))

---------------------------------------------------------------------------
(* The CSV file and the species table *)

\* the rows of EcoCrop_DB.csv as csv-parser delivers them: every field a text
CsvFile ==
    << [ScientificName |-> <<>>, COMNAME |-> <<>>, LIFO |-> <<>>,
        TMIN |-> <<"N", "A">>, TMAX |-> <<"N", "A">>, PHMIN |-> <<"N", "A">>, PHMAX |-> <<"N", "A">>],
       [ScientificName |-> <<"Z", "e">>, COMNAME |-> <<"m", ",", "k">>, LIFO |-> <<"h">>,
        TMIN |-> <<"1", "0">>, TMAX |-> <<"N", "A">>, PHMIN |-> <<>>, PHMAX |-> <<"8">>],
       [ScientificName |-> <<"Z", "E">>, COMNAME |-> <<"m">>, LIFO |-> <<"t">>,
        TMIN |-> <<"1", "2">>, TMAX |-> <<"4", "0">>, PHMIN |-> <<"5">>, PHMAX |-> <<"a", "b">>] >>

\* one numeric column: 'NA' and '' become null, anything else goes through parseFloat
NumericField(text) ==
    IF text # <<"N", "A">> /\ text # <<>> THEN ParseFloatText(text) ELSE Null

\* the 'data' handler's processedRow
ProcessRow(row) ==
    [ScientificName |-> Str(row.ScientificName),
     COMNAME |-> Str(row.COMNAME),
     LIFO |-> Str(row.LIFO),
     TMIN |-> NumericField(row.TMIN),
     TMAX |-> NumericField(row.TMAX),
     PHMIN |-> NumericField(row.PHMIN),
     PHMAX |-> NumericField(row.PHMAX)]

\* a table that keeps receiving rows: the file is delivered again and again
CsvDataAgain ==
    /\ plantData' = Append(plantData, ProcessRow(CsvFile[(csvPos % Len(CsvFile)) + 1]))
    /\ csvPos' = IF csvPos < Len(CsvFile) THEN csvPos + 1 ELSE csvPos
    /\ UNCHANGED <<csvEnded, model, pc, req, plantInfo, nasa, ow, soil, calls,
                   aggregatedData, analysisArg, gemini, responses>>
    /\ UNCHANGED pageVars
    /\ UNCHANGED handlers

\* stream 'data' event: one more row is pushed to plantData
CsvData ==
    /\ csvPos < Len(CsvFile)
    /\ plantData' = Append(plantData, ProcessRow(CsvFile[csvPos + 1]))
    /\ csvPos' = csvPos + 1
    /\ UNCHANGED <<csvEnded, model, pc, req, plantInfo, nasa, ow, soil, calls,
                   aggregatedData, analysisArg, gemini, responses>>
    /\ UNCHANGED pageVars
    /\ UNCHANGED handlers

\* stream 'end' event: only logs
CsvEnd ==
    /\ csvPos = Len(CsvFile)
    /\ ~csvEnded
    /\ csvEnded' = TRUE
    /\ UNCHANGED <<plantData, csvPos, model, pc, req, plantInfo, nasa, ow, soil, calls,
                   aggregatedData, analysisArg, gemini, responses>>
    /\ UNCHANGED pageVars
    /\ UNCHANGED handlers

---------------------------------------------------------------------------
(* What a provider can do with one HTTP request *)

\* bodies of a response with a success status:
\*   full     the structure the client reads is there
\*   nofield  { properties: {} }: the properties object without the field
\*   noprops  {}: no properties object
\*   null     the JSON text null
\*   notjson  not JSON: response.json() rejects with a SyntaxError
OkBodies == {"full", "nofield", "noprops", "null", "notjson"}

HttpOk(body) == [kind |-> "ok", status |-> "200", body |-> body, msg |-> ""]
HttpBad(status, body) == [kind |-> "bad", status |-> status, body |-> body, msg |-> ""]
HttpThrow(msg) == [kind |-> "throw", status |-> "", body |-> "", msg |-> msg]

\* outcomes of one fetch(url): success statuses, non-success statuses whose error
\* body parses ("json") or not, and transport errors
HttpOutcomes ==
    {HttpOk(b) : b \in OkBodies}
    \cup {HttpBad("500", "json"), HttpBad("503", "notjson")}
    \cup {HttpThrow("ETIMEDOUT")}

\* the outcomes the soil provider is tried with; the failures differ in status or
\* message, so that the failure of one attempt can be told from that of another
SoilOutcomes ==
    {HttpOk(b) : b \in {"full", "nofield", "noprops", "notjson"}}
    \cup {HttpBad("500", "json"), HttpBad("503", "notjson")}
    \cup {HttpThrow("ETIMEDOUT")}

(* What a source client returns: a payload, an error object, or JSON null *)

Payload(val) == [tag |-> "payload", val |-> val, error |-> <<>>, details |-> <<>>]
ErrObj(error, details) == [tag |-> "error", val |-> "", error |-> error, details |-> details]
NullResult == [tag |-> "null", val |-> "", error |-> <<>>, details |-> <<>>]

\* the message of the exception thrown while reading a success response
ReadErrorMessage(body) ==
    IF body = "notjson" THEN "SyntaxError: invalid json response body"
    ELSE "TypeError: Cannot read properties"

\* a client's call: not started, awaiting its fetch, fulfilled with a result, or rejected
Idle == [st |-> "idle", res |-> <<>>, err |-> ""]
Pending == [st |-> "pending", res |-> <<>>, err |-> ""]
Fulfilled(r) == [st |-> "fulfilled", res |-> <<r>>, err |-> ""]
Rejected(msg) == [st |-> "rejected", res |-> <<>>, err |-> msg]

\* fetchNasaPowerAPI without its try/catch: a transport error rejects the call
FetchNasaPowerAPINoCatch(o) ==
    CASE o.kind = "throw" -> Rejected(o.msg)
      [] o.kind = "bad" ->
            Fulfilled(ErrObj(<<"NASA POWER API request failed:", o.status>>,
                IF o.body = "json" THEN <<"body", o.status>>
                ELSE <<"NASA POWER API responded with", o.status>>))
      [] o.kind = "ok" /\ o.body \in {"notjson", "null"} -> Rejected(ReadErrorMessage(o.body))
      [] o.kind = "ok" /\ o.body \in {"noprops", "nofield"} ->
            Fulfilled(ErrObj(<<"Parameter data not found in NASA POWER response">>, <<"raw", o.body>>))
      [] o.kind = "ok" /\ o.body = "full" ->
            Fulfilled(Payload("nasa.properties.parameter"))

\* fetchNasaPowerAPI after its fetch settled with outcome o
FetchNasaPowerAPI(o) ==
    CASE o.kind = "throw" ->
            Fulfilled(ErrObj(<<"Failed to fetch NASA POWER data:", o.msg>>, <<>>))
      [] o.kind = "bad" ->
            Fulfilled(ErrObj(<<"NASA POWER API request failed:", o.status>>,
                IF o.body = "json" THEN <<"body", o.status>>
                ELSE <<"NASA POWER API responded with", o.status>>))
      [] o.kind = "ok" /\ o.body \in {"notjson", "null"} ->
            Fulfilled(ErrObj(<<"Failed to fetch NASA POWER data:", ReadErrorMessage(o.body)>>, <<>>))
      [] o.kind = "ok" /\ o.body \in {"noprops", "nofield"} ->
            Fulfilled(ErrObj(<<"Parameter data not found in NASA POWER response">>, <<"raw", o.body>>))
      [] o.kind = "ok" /\ o.body = "full" ->
            Fulfilled(Payload("nasa.properties.parameter"))

\* fetchOpenWeatherAPI with a synthesized message that does not name the status
FetchOpenWeatherAPINoStatus(o) ==
    CASE o.kind = "throw" ->
            Fulfilled(ErrObj(<<"Failed to fetch OpenWeatherMap data:", o.msg>>, <<>>))
      [] o.kind = "bad" ->
            Fulfilled(ErrObj(<<"OpenWeatherMap API request failed:", o.status>>,
                IF o.body = "json" THEN <<"body", o.status>>
                ELSE <<"OpenWeatherMap API responded with an error">>))
      [] o.kind = "ok" /\ o.body = "notjson" ->
            Fulfilled(ErrObj(<<"Failed to fetch OpenWeatherMap data:", ReadErrorMessage(o.body)>>, <<>>))
      [] o.kind = "ok" /\ o.body = "null" -> Fulfilled(NullResult)
      [] o.kind = "ok" /\ o.body \in {"noprops", "nofield", "full"} ->
            Fulfilled(Payload(o.body))

\* fetchOpenWeatherAPI after its fetch settled with outcome o: a success body is
\* returned as it is
FetchOpenWeatherAPI(o) ==
    CASE o.kind = "throw" ->
            Fulfilled(ErrObj(<<"Failed to fetch OpenWeatherMap data:", o.msg>>, <<>>))
      [] o.kind = "bad" ->
            Fulfilled(ErrObj(<<"OpenWeatherMap API request failed:", o.status>>,
                IF o.body = "json" THEN <<"body", o.status>>
                ELSE <<"OpenWeatherMap API responded with", o.status>>))
      [] o.kind = "ok" /\ o.body = "notjson" ->
            Fulfilled(ErrObj(<<"Failed to fetch OpenWeatherMap data:", ReadErrorMessage(o.body)>>, <<>>))
      [] o.kind = "ok" /\ o.body = "null" -> Fulfilled(NullResult)
      [] o.kind = "ok" /\ o.body \in {"noprops", "nofield", "full"} ->
            Fulfilled(Payload(o.body))

---------------------------------------------------------------------------
(* fetchSoilAPIWithRetry *)

DefaultRetries == 3
BackoffUnit == 1500

\* the call's state: the ceiling it was called with, the attempt of the for loop,
\* the fetches issued, the outcomes seen and the sleeps taken, in order
SoilIdle ==
    [st |-> "idle", retries |-> 0, attempt |-> 0, fetches |-> 0,
     log |-> <<>>, sleeps |-> <<>>, res |-> <<>>, err |-> ""]

\* the call until its first await: the loop is entered when 1 <= retries
SoilStart(retries) ==
    IF 1 <= retries
    THEN [SoilIdle EXCEPT !.st = "pending", !.retries = retries, !.attempt = 1, !.fetches = 1]
    ELSE [SoilIdle EXCEPT !.st = "fulfilled", !.retries = retries, !.attempt = 1,
            !.res = <<ErrObj(<<"Soil API request failed exhaustively after",
                               ToString(retries), "attempts.">>, <<>>)>>]

\* the outcomes that leave the try block by an exception: a transport error, or a
\* success response that cannot be read (response.json() rejects, or
\* data.properties is undefined)
SoilThrows(o) == o.kind = "throw" \/ (o.kind = "ok" /\ o.body \in {"notjson", "noprops", "null"})

SoilThrownMessage(o) == IF o.kind = "throw" THEN o.msg ELSE ReadErrorMessage(o.body)

\* the error object returned when the last attempt failed
SoilFinalError(s, o) ==
    IF o.kind = "bad"
    THEN ErrObj(<<"Soil API failed after", ToString(s.retries), "attempts:", o.status>>,
                IF o.body = "json" THEN <<"body", o.status>>
                ELSE <<"Soil API responded with", o.status, "on attempt", ToString(s.attempt)>>)
    ELSE ErrObj(<<"Soil API fetch failed after", ToString(s.retries), "attempts:",
                  SoilThrownMessage(o)>>, <<>>)

\* the last-attempt test off by one: the call gives up one attempt early
SoilLastAttemptEarly(s) == s.attempt + 1 >= s.retries

\* a last-attempt test that is never met: the loop sleeps after every failure
SoilLastAttemptLate(s) == s.attempt > s.retries

\* is another attempt made after a failed one
SoilLastAttempt(s) == s.attempt = s.retries

\* a backoff that does not grow with the attempt
BackoffDelayConstant(attempt) == BackoffUnit

\* the delay slept after a failed attempt
BackoffDelay(attempt) == attempt * BackoffUnit

\* one turn of the loop body, after the fetch of attempt s.attempt settled with o
SoilOnOutcome(s, o) ==
    LET logged == [s EXCEPT !.log = Append(s.log, o)]
    IN CASE o.kind = "ok" /\ o.body = "full" ->
                [logged EXCEPT !.st = "fulfilled", !.res = <<Payload("soil.properties.probabilities")>>]
         [] o.kind = "ok" /\ o.body = "nofield" ->
                [logged EXCEPT !.st = "fulfilled",
                    !.res = <<ErrObj(<<"Soil probability data not found (parsed)">>, <<>>)>>]
         [] o.kind = "bad" \/ SoilThrows(o) ->
                IF SoilLastAttempt(s)
                THEN [logged EXCEPT !.st = "fulfilled", !.res = <<SoilFinalError(s, o)>>]
                ELSE [logged EXCEPT !.st = "sleeping",
                        !.sleeps = Append(s.sleeps, BackoffDelay(s.attempt))]

\* the delay elapsed: attempt++ and the loop test; the next fetch is issued, or the
\* loop is left and the exhaustion error returned
SoilAfterSleep(s) ==
    IF s.attempt + 1 <= s.retries
    THEN [s EXCEPT !.st = "pending", !.attempt = s.attempt + 1, !.fetches = s.fetches + 1]
    ELSE [s EXCEPT !.st = "fulfilled", !.attempt = s.attempt + 1,
            !.res = <<ErrObj(<<"Soil API request failed exhaustively after",
                               ToString(s.retries), "attempts.">>, <<>>)>>]

---------------------------------------------------------------------------
(* gemini.js: getAnalysisFromGemini *)

\* an Error thrown by the SDK: its message, and the block reason and safety ratings
\* of error.response.promptFeedback ("" when absent)
SdkError(message, blockReason, safetyRatings) ==
    [message |-> message, blockReason |-> blockReason, safetyRatings |-> safetyRatings]

NoError == SdkError(<<>>, "", "")

SdkErrors ==
    {SdkError(<<"fetch failed">>, "", ""),
     SdkError(<<"[400 Bad Request]", "API key not valid.", "Please pass a valid API key.">>, "", ""),
     SdkError(<<"Response was blocked">>, "SAFETY", ""),
     SdkError(<<"Response was blocked">>, "SAFETY", "[ratings]")}

\* a candidate of the response: finishReason and safetyRatings ("" when absent)
Candidate(finishReason, safetyRatings) ==
    [finishReason |-> finishReason, safetyRatings |-> safetyRatings]

\* what the backend does with one generateContent call:
\*   gen   generateContent resolves or rejects (with err)
\*   resp  result.response is present, missing, or rejects (with err)
\*   text  response.text is a function ("fn", returning textVal), a function that
\*         throws err ("fnThrows"), absent, or a non-empty string property ("prop")
GeminiOutcome(gen, resp, text, textVal, cands, err) ==
    [gen |-> gen, resp |-> resp, text |-> text, textVal |-> textVal,
     cands |-> cands, err |-> err]

GeminiOutcomes ==
    {GeminiOutcome("reject", "missing", "absent", <<>>, <<>>, e) : e \in SdkErrors}
    \cup {GeminiOutcome("resolve", "reject", "absent", <<>>, <<>>, SdkError(<<"fetch failed">>, "", ""))}
    \cup {GeminiOutcome("resolve", "missing", "absent", <<>>, <<>>, NoError)}
    \cup {GeminiOutcome("resolve", "present", "absent", <<>>, c, NoError) :
            c \in {<<>>, <<Candidate("SAFETY", "[ratings]")>>, <<Candidate("", "")>>}}
    \cup {GeminiOutcome("resolve", "present", "fn", t, <<Candidate("STOP", "")>>, NoError) :
            t \in {<<"Feasibility Score (1-10)", "", "7/10">>, <<>>}}
    \cup {GeminiOutcome("resolve", "present", "fnThrows", <<>>, <<Candidate("SAFETY", "[ratings]")>>,
                        SdkError(<<"Response was blocked">>, "SAFETY", "[ratings]"))}
    \cup {GeminiOutcome("resolve", "present", "prop", <<"text">>, <<>>, NoError)}

\* the result object: analysis_text (when hasText), success, error ("" when absent),
\* details (when hasDetails)
AnalysisResult(success, hasText, text, error, hasDetails, details) ==
    [success |-> success, hasText |-> hasText, analysis_text |-> text,
     error |-> error, hasDetails |-> hasDetails, details |-> details]

\* no guard: the model is called whether it exists or not
ModelAssumed(m) == TRUE

\* the guard of getAnalysisFromGemini: is there a model to call
ModelAvailable(m) == m # "null"

\* the module's initialisation: the model exists only when GEMINI_API_KEY is set
\* and getGenerativeModel did not throw
InitialModels == {"configured", "null"}

Placeholder ==
    AnalysisResult(FALSE, TRUE, <<"PLACEHOLDER from gemini.js: Gemini model not available">>,
                   "Gemini model not initialized in gemini.js", FALSE, <<>>)

LowerToken(t) ==
    CASE t = "API key not valid." -> "api key not valid."
      [] t = "Please pass a valid API key." -> "please pass a valid api key."
      [] t = "[400 Bad Request]" -> "[400 bad request]"
      [] t = "Response was blocked" -> "response was blocked"
      [] OTHER -> t

\* error.message.toLowerCase().includes("api key not valid")
MentionsInvalidKey(message) ==
    \E i \in 1..Len(message) : LowerToken(message[i]) = "api key not valid."

\* details that start empty instead of starting from error.message
CatchDetailsWithoutMessage(e) ==
    IF e.blockReason # ""
    THEN <<"Block Reason:", e.blockReason>>
         \o (IF e.safetyRatings # "" THEN <<"Safety Ratings:", e.safetyRatings>> ELSE <<>>)
    ELSE IF e.message # <<>> /\ MentionsInvalidKey(e.message)
    THEN <<"Gemini API key not valid. Please check your API key configuration.">>
    ELSE <<>>

\* the details of the catch block
CatchDetails(e) ==
    IF e.blockReason # ""
    THEN e.message \o <<"Block Reason:", e.blockReason>>
         \o (IF e.safetyRatings # "" THEN <<"Safety Ratings:", e.safetyRatings>> ELSE <<>>)
    ELSE IF e.message # <<>> /\ MentionsInvalidKey(e.message)
    THEN <<"Gemini API key not valid. Please check your API key configuration.">>
    ELSE e.message

\* the catch block of getAnalysisFromGemini
CatchResult(e) ==
    AnalysisResult(FALSE, FALSE, <<>>, "Failed to get analysis from Gemini AI.", TRUE, CatchDetails(e))

\* the branch for a response that is missing or has no text member
EmptyResponseResult(g) ==
    LET hasCand == g.resp = "present" /\ Len(g.cands) > 0
        finishReason == IF hasCand /\ g.cands[1].finishReason # ""
                        THEN g.cands[1].finishReason ELSE "Unknown"
        safetyRatingsInfo == IF hasCand /\ g.cands[1].safetyRatings # ""
                             THEN g.cands[1].safetyRatings ELSE "Not available"
    IN AnalysisResult(FALSE, FALSE, <<>>, "Gemini response was empty or potentially blocked.", TRUE,
                      <<"Finish Reason:", finishReason, "Safety Ratings:", safetyRatingsInfo,
                        "Response Text:", "No text content in response.">>)

\* what the text read at line 346 is turned into
TextResult(text) == AnalysisResult(TRUE, TRUE, text, "", FALSE, <<>>)

\* getAnalysisFromGemini once generateContent has settled with g
GetAnalysisFromGemini(g) ==
    CASE g.gen = "reject" -> CatchResult(g.err)
      [] g.gen = "resolve" /\ g.resp = "reject" -> CatchResult(g.err)
      [] g.gen = "resolve" /\ g.resp = "missing" -> EmptyResponseResult(g)
      [] g.gen = "resolve" /\ g.resp = "present" /\ g.text = "absent" -> EmptyResponseResult(g)
      [] g.gen = "resolve" /\ g.resp = "present" /\ g.text = "fn" -> TextResult(g.textVal)
      [] g.gen = "resolve" /\ g.resp = "present" /\ g.text = "fnThrows" -> CatchResult(g.err)
      [] g.gen = "resolve" /\ g.resp = "present" /\ g.text = "prop" ->
            CatchResult(SdkError(<<"response.text is not a function">>, "", ""))

---------------------------------------------------------------------------
(* The handler of POST /api/get-combined-data *)

Body(latitude, longitude, name, description) ==
    [latitude |-> latitude, longitude |-> longitude,
     plantScientificName |-> name, planDescription |-> description]

Plot == Str(<<"p">>)

\* the request bodies tried: well formed ones for names in and out of the table,
\* bodies with a field missing or empty, coordinates that are not numbers, and a
\* name that is not a string
Bodies ==
    {Body(Num(10), Num(123), Str(n), Plot) :
        n \in {<<"Z", "e">>, <<"Z">>, <<"Z", "e", "a">>, <<"m">>}}
    \cup {Body(Undefined, Num(123), Str(<<"Z", "e">>), Plot),
          Body(Num(10), Undefined, Str(<<"Z", "e">>), Plot),
          Body(Num(10), Num(123), Undefined, Plot),
          Body(Num(10), Num(123), Str(<<>>), Plot),
          Body(Num(10), Num(123), Str(<<"Z", "e">>), Undefined),
          Body(Num(10), Num(123), Str(<<"Z", "e">>), Str(<<>>)),
          Body(Undefined, Undefined, Undefined, Undefined),
          Body(Null, Num(123), Str(<<"z", "E">>), Plot),
          Body(Str(<<"1", "0">>), Str(<<"x">>), Str(<<"Z", "E">>), Plot),
          Body(Num(10), Num(123), Num(7), Plot),
          Body(Undefined, Num(123), Num(7), Plot)}

NoBody == Body(Undefined, Undefined, Undefined, Undefined)

\* the validation without the planDescription test (as in the handler's earlier version)
ValidationWithoutDescription(b) ==
    \/ b.latitude.t = "undefined"
    \/ b.longitude.t = "undefined"
    \/ ~Truthy(b.plantScientificName)

\* the validation of line 98
ValidationFails(b) ==
    \/ b.latitude.t = "undefined"
    \/ b.longitude.t = "undefined"
    \/ ~Truthy(b.plantScientificName)
    \/ ~Truthy(b.planDescription)

\* a predicate that accepts a requested name that only begins a stored name
NameMatchesPrefix(p, name) ==
    /\ Truthy(p.ScientificName)
    /\ Len(name.s) <= Len(p.ScientificName.s)
    /\ SubSeq(ToLowerCase(p.ScientificName.s), 1, Len(name.s)) = ToLowerCase(name.s)

\* the predicate of plantData.find for a string name
NameMatches(p, name) ==
    Truthy(p.ScientificName) /\ ToLowerCase(p.ScientificName.s) = ToLowerCase(name.s)

\* the predicate calls toLowerCase on the requested name for the first record with
\* a scientific name: a TypeError when the name is not a string
LookupThrows(table, name) ==
    name.t # "string" /\ \E i \in 1..Len(table) : Truthy(table[i].ScientificName)

\* plantData.find: the index of the first matching record, 0 when there is none
FindPlant(table, name) ==
    LET hits == {i \in 1..Len(table) : NameMatches(table[i], name)}
    IN IF name.t # "string" \/ hits = {} THEN 0
       ELSE CHOOSE i \in hits : \A j \in hits : i <= j

\* error.message of the TypeError thrown by the callback of plantData.find when
\* plantScientificName is not a string
LookupErrorMessage == <<"plantScientificName.toLowerCase is not a function">>

\* the response objects
ErrorResponse(status, error, details) ==
    [status |-> status, error |-> error, details |-> details,
     data_summary |-> <<>>, ai_analysis |-> <<>>]

\* an envelope whose record was changed after the analysis got it
EnvelopeOfChangedRecord(data, analysis) ==
    [status |-> "200", error |-> <<>>, details |-> <<>>,
     data_summary |-> <<[data EXCEPT !.userInput.planDescription = Str(<<>>)]>>,
     ai_analysis |-> <<analysis>>]

\* an envelope sent without its analysis block
EnvelopeWithoutAnalysis(data, analysis) ==
    [status |-> "200", error |-> <<>>, details |-> <<>>,
     data_summary |-> <<data>>, ai_analysis |-> <<>>]

Envelope(data, analysis) ==
    [status |-> "200", error |-> <<>>, details |-> <<>>,
     data_summary |-> <<data>>, ai_analysis |-> <<analysis>>]

\* a record built before the soil call returned: its soil slot is still empty
AggregatedDataBeforeSoil(b, info, nasaRes, owRes, soilRes) ==
    [userInput |-> [latitude |-> ParseFloat(b.latitude),
                    longitude |-> ParseFloat(b.longitude),
                    planDescription |-> b.planDescription],
     location_conditions |-> [nasa_power |-> nasaRes,
                              open_weather |-> owRes,
                              soil_type_probabilities |-> NullResult],
     plant_requirements |-> info]

\* the aggregated record of lines 125-137
AggregatedData(b, info, nasaRes, owRes, soilRes) ==
    [userInput |-> [latitude |-> ParseFloat(b.latitude),
                    longitude |-> ParseFloat(b.longitude),
                    planDescription |-> b.planDescription],
     location_conditions |-> [nasa_power |-> nasaRes,
                              open_weather |-> owRes,
                              soil_type_probabilities |-> soilRes],
     plant_requirements |-> info]

NoCalls ==
    [lookup |-> 0, nasa |-> 0, ow |-> 0, soil |-> 0, analysis |-> 0, generateContent |-> 0]

\* a fan-out that is started a second time
LaunchCallsAgain(c) == [c EXCEPT !.nasa = c.nasa + 2, !.ow = c.ow + 2, !.soil = c.soil + 2]

\* the three client functions are called, in the argument list of Promise.all
LaunchCalls(c) == [c EXCEPT !.nasa = c.nasa + 1, !.ow = c.ow + 1, !.soil = c.soil + 1]

\* a request arrives: validation, lookup and the start of the three client calls
\* happen in one turn of the event loop
PostCombinedData(b) ==
    /\ pc \in {"idle", "responded"}
    /\ req' = b
    /\ aggregatedData' = <<>>
    /\ analysisArg' = <<>>
    /\ gemini' = <<>>
    /\ IF ValidationFails(b)
       THEN /\ responses' = <<ErrorResponse("400",
                    <<"Latitude, longitude, plantScientificName, and planDescription are required.">>, <<>>)>>
            /\ pc' = "responded"
            /\ calls' = NoCalls
            /\ plantInfo' = <<>>
            /\ nasa' = Idle /\ ow' = Idle /\ soil' = SoilIdle
       ELSE IF LookupThrows(plantData, b.plantScientificName)
       THEN /\ responses' = <<ErrorResponse("500", <<"Failed to perform suitability analysis.">>,
                    LookupErrorMessage)>>
            /\ pc' = "responded"
            /\ calls' = [NoCalls EXCEPT !.lookup = 1]
            /\ plantInfo' = <<>>
            /\ nasa' = Idle /\ ow' = Idle /\ soil' = SoilIdle
       ELSE IF FindPlant(plantData, b.plantScientificName) = 0
       THEN /\ responses' = <<ErrorResponse("404", <<"Plant data not found for">>, <<>>)>>
            /\ pc' = "responded"
            /\ calls' = [NoCalls EXCEPT !.lookup = 1]
            /\ plantInfo' = <<>>
            /\ nasa' = Idle /\ ow' = Idle /\ soil' = SoilIdle
       ELSE /\ responses' = <<>>
            /\ pc' = "fetching"
            /\ calls' = LaunchCalls([NoCalls EXCEPT !.lookup = 1])
            /\ plantInfo' = <<plantData[FindPlant(plantData, b.plantScientificName)]>>
            /\ nasa' = Pending /\ ow' = Pending /\ soil' = SoilStart(DefaultRetries)
    /\ UNCHANGED <<plantData, csvPos, csvEnded, model>>
    /\ UNCHANGED pageVars
    /\ UNCHANGED handlers

\* a join that also gives up when a call returned an error object
JoinRejectedOnError(n, o, s) ==
    \/ "rejected" \in {n.st, o.st, s.st}
    \/ \E x \in {n, o, s} : x.st = "fulfilled" /\ x.res[1].tag = "error"

\* Promise.all: rejected as soon as one call rejects, fulfilled when all three are
JoinRejected(n, o, s) == "rejected" \in {n.st, o.st, s.st}
JoinFulfilled(n, o, s) == {n.st, o.st, s.st} = {"fulfilled"}

JoinError(n, o, s) ==
    IF n.st = "rejected" THEN n.err ELSE IF o.st = "rejected" THEN o.err ELSE s.err

\* the handler's continuation after a client call settled, the calls being then in
\* states n, o, s: nothing while Promise.all is pending; the 500 answer of the catch
\* blocks when it rejected; else the aggregated record is built and
\* getAnalysisFromGemini called, which answers at once when there is no model
HandlerResumes(n, o, s) ==
    IF pc = "fetching" /\ JoinRejected(n, o, s)
    THEN /\ responses' = Append(responses,
                ErrorResponse("500", <<"Failed to perform suitability analysis.">>,
                              <<"External API fetch error:", JoinError(n, o, s)>>))
         /\ pc' = "responded"
         /\ UNCHANGED <<aggregatedData, analysisArg, calls>>
    ELSE IF pc = "fetching" /\ JoinFulfilled(n, o, s)
    THEN LET data == AggregatedData(req, plantInfo[1], n.res[1], o.res[1], s.res[1])
         IN /\ aggregatedData' = <<data>>
            /\ analysisArg' = <<data>>
            /\ IF ModelAvailable(model)
               THEN /\ calls' = [calls EXCEPT !.analysis = @ + 1, !.generateContent = @ + 1]
                    /\ pc' = "analysing"
                    /\ UNCHANGED responses
               ELSE /\ calls' = [calls EXCEPT !.analysis = @ + 1]
                    /\ pc' = "responded"
                    /\ responses' = Append(responses, Envelope(data, Placeholder))
    ELSE UNCHANGED <<pc, aggregatedData, analysisArg, calls, responses>>

\* the fetch of fetchNasaPowerAPI settles
NasaSettles(o) ==
    /\ nasa.st = "pending"
    /\ nasa' = FetchNasaPowerAPI(o)
    /\ HandlerResumes(nasa', ow, soil)
    /\ UNCHANGED <<plantData, csvPos, csvEnded, model, req, plantInfo, ow, soil, gemini>>
    /\ UNCHANGED pageVars
    /\ UNCHANGED handlers

\* the fetch of fetchOpenWeatherAPI settles
OpenWeatherSettles(o) ==
    /\ ow.st = "pending"
    /\ ow' = FetchOpenWeatherAPI(o)
    /\ HandlerResumes(nasa, ow', soil)
    /\ UNCHANGED <<plantData, csvPos, csvEnded, model, req, plantInfo, nasa, soil, gemini>>
    /\ UNCHANGED pageVars
    /\ UNCHANGED handlers

\* the fetch of the current attempt of fetchSoilAPIWithRetry settles
SoilSettles(o) ==
    /\ soil.st = "pending"
    /\ soil' = SoilOnOutcome(soil, o)
    /\ HandlerResumes(nasa, ow, soil')
    /\ UNCHANGED <<plantData, csvPos, csvEnded, model, req, plantInfo, nasa, ow, gemini>>
    /\ UNCHANGED pageVars
    /\ UNCHANGED handlers

\* the timer of delay(attempt * 1500) fires
SoilWakes ==
    /\ soil.st = "sleeping"
    /\ soil' = SoilAfterSleep(soil)
    /\ HandlerResumes(nasa, ow, soil')
    /\ UNCHANGED <<plantData, csvPos, csvEnded, model, req, plantInfo, nasa, ow, gemini>>
    /\ UNCHANGED pageVars
    /\ UNCHANGED handlers

\* generateContent settles: getAnalysisFromGemini returns and the envelope is sent
GeminiSettles(g) ==
    /\ pc = "analysing"
    /\ gemini' = <<g>>
    /\ responses' = Append(responses, Envelope(aggregatedData[1], GetAnalysisFromGemini(g)))
    /\ pc' = "responded"
    /\ UNCHANGED <<plantData, csvPos, csvEnded, model, req, plantInfo, nasa, ow, soil,
                   calls, aggregatedData, analysisArg>>
    /\ UNCHANGED pageVars
    /\ UNCHANGED handlers

---------------------------------------------------------------------------
(* The server *)

Init ==
    /\ plantData = <<>>
    /\ csvPos = 0
    /\ csvEnded = FALSE
    /\ model \in InitialModels
    /\ pc = "idle"
    /\ req = NoBody
    /\ plantInfo = <<>>
    /\ nasa = Idle
    /\ ow = Idle
    /\ soil = SoilIdle
    /\ calls = NoCalls
    /\ aggregatedData = <<>>
    /\ analysisArg = <<>>
    /\ gemini = <<>>
    /\ responses = <<>>
    /\ PageInit
    /\ handlers = <<>>

\* the provider outcomes the whole server is explored with: one of each kind
ServerHttpOutcomes ==
    {HttpOk("full"), HttpOk("nofield"), HttpOk("null"), HttpBad("500", "json"),
     HttpThrow("ETIMEDOUT")}

ServerSoilOutcomes ==
    {HttpOk("full"), HttpOk("nofield"), HttpBad("503", "notjson"), HttpThrow("ETIMEDOUT")}

ServerGeminiOutcomes ==
    {GeminiOutcome("reject", "missing", "absent", <<>>, <<>>, SdkError(<<"fetch failed">>, "", "")),
     GeminiOutcome("resolve", "present", "fn", <<"Feasibility Score (1-10)", "", "7/10">>,
                   <<Candidate("STOP", "")>>, NoError),
     GeminiOutcome("resolve", "present", "absent", <<>>, <<Candidate("SAFETY", "[ratings]")>>, NoError)}

Next ==
    \/ CsvData
    \/ CsvEnd
    \/ \E b \in Bodies : PostCombinedData(b)
    \/ \E o \in ServerHttpOutcomes : NasaSettles(o)
    \/ \E o \in ServerHttpOutcomes : OpenWeatherSettles(o)
    \/ \E o \in ServerSoilOutcomes : SoilSettles(o)
    \/ SoilWakes
    \/ \E g \in ServerGeminiOutcomes : GeminiSettles(g)

Spec == Init /\ [][Next]_vars

\* what the event loop and the code's own timers guarantee: the CSV stream is read
\* to its end, the timer of delay() fires, and the soil fetch, issued with
\* { timeout: 7000 }, settles. The NASA and OpenWeather fetches and generateContent
\* are issued with no timeout: nothing makes them settle.
Scheduling ==
    /\ WF_vars(CsvData)
    /\ WF_vars(CsvEnd)
    /\ WF_vars(SoilWakes)
    /\ WF_vars(\E o \in ServerSoilOutcomes : SoilSettles(o))

SpecLive == Init /\ [][Next]_vars /\ Scheduling

---------------------------------------------------------------------------
(* fetchSoilAPIWithRetry called on its own, with any ceiling *)

MaxRetries == 3

InitSoil ==
    /\ plantData = <<>>
    /\ csvPos = 0
    /\ csvEnded = FALSE
    /\ model = "null"
    /\ pc = "idle"
    /\ req = NoBody
    /\ plantInfo = <<>>
    /\ nasa = Idle
    /\ ow = Idle
    /\ \E r \in 0..MaxRetries : soil = SoilStart(r)
    /\ calls = [NoCalls EXCEPT !.soil = 1]
    /\ aggregatedData = <<>>
    /\ analysisArg = <<>>
    /\ gemini = <<>>
    /\ responses = <<>>
    /\ PageInit
    /\ handlers = <<>>

NextSoil ==
    \/ \E o \in SoilOutcomes : SoilSettles(o)
    \/ SoilWakes

SpecSoil == InitSoil /\ [][NextSoil]_vars

---------------------------------------------------------------------------
(* The server with well-behaved providers and every behaviour of the backend *)

NextGemini ==
    \/ CsvData
    \/ CsvEnd
    \/ \E b \in Bodies : PostCombinedData(b)
    \/ NasaSettles(HttpOk("full"))
    \/ OpenWeatherSettles(HttpOk("full"))
    \/ \E o \in {HttpOk("full"), HttpThrow("ETIMEDOUT")} : SoilSettles(o)
    \/ SoilWakes
    \/ \E g \in GeminiOutcomes : GeminiSettles(g)

SpecGemini == Init /\ [][NextGemini]_vars

---------------------------------------------------------------------------
(* The three source clients called on their own, with every outcome of a fetch *)

InitClients ==
    /\ plantData = <<>>
    /\ csvPos = 0
    /\ csvEnded = FALSE
    /\ model = "null"
    /\ pc = "idle"
    /\ req = NoBody
    /\ plantInfo = <<>>
    /\ nasa = Pending
    /\ ow = Pending
    /\ soil = SoilStart(DefaultRetries)
    /\ calls = LaunchCalls(NoCalls)
    /\ aggregatedData = <<>>
    /\ analysisArg = <<>>
    /\ gemini = <<>>
    /\ responses = <<>>
    /\ PageInit
    /\ handlers = <<>>

NextClients ==
    \/ \E o \in HttpOutcomes : NasaSettles(o)
    \/ \E o \in HttpOutcomes : OpenWeatherSettles(o)
    \/ \E o \in SoilOutcomes : SoilSettles(o)
    \/ SoilWakes

SpecClients == InitClients /\ [][NextClients]_vars

---------------------------------------------------------------------------
(* Two invocations of the POST handler side by side, the table being loaded *)

PairIds == {1, 2}

\* the locals of one invocation, with the outcomes its awaits received
IdleHandler ==
    [pc |-> "idle", req |-> NoBody, plantInfo |-> <<>>, nasa |-> Idle, ow |-> Idle,
     soil |-> SoilIdle, nasaSeen |-> <<>>, owSeen |-> <<>>, aggregatedData |-> <<>>,
     geminiSeen |-> <<>>, responses |-> <<>>]

\* the handler until its first await, for body b and the table as it is
HandlerArrives(b, table) ==
    IF ValidationFails(b)
    THEN [IdleHandler EXCEPT !.pc = "responded", !.req = b,
            !.responses = <<ErrorResponse("400",
                <<"Latitude, longitude, plantScientificName, and planDescription are required.">>, <<>>)>>]
    ELSE IF LookupThrows(table, b.plantScientificName)
    THEN [IdleHandler EXCEPT !.pc = "responded", !.req = b,
            !.responses = <<ErrorResponse("500", <<"Failed to perform suitability analysis.">>,
                                          LookupErrorMessage)>>]
    ELSE IF FindPlant(table, b.plantScientificName) = 0
    THEN [IdleHandler EXCEPT !.pc = "responded", !.req = b,
            !.responses = <<ErrorResponse("404", <<"Plant data not found for">>, <<>>)>>]
    ELSE [IdleHandler EXCEPT !.pc = "fetching", !.req = b,
            !.plantInfo = <<table[FindPlant(table, b.plantScientificName)]>>,
            !.nasa = Pending, !.ow = Pending, !.soil = SoilStart(DefaultRetries)]

\* the handler after one of its client calls settled, with module-level model m
HandlerContinues(h, m) ==
    IF h.pc = "fetching" /\ JoinRejected(h.nasa, h.ow, h.soil)
    THEN [h EXCEPT !.pc = "responded",
            !.responses = <<ErrorResponse("500", <<"Failed to perform suitability analysis.">>,
                              <<"External API fetch error:", JoinError(h.nasa, h.ow, h.soil)>>)>>]
    ELSE IF h.pc = "fetching" /\ JoinFulfilled(h.nasa, h.ow, h.soil)
    THEN LET data == AggregatedData(h.req, h.plantInfo[1], h.nasa.res[1], h.ow.res[1],
                                    h.soil.res[1])
         IN IF ModelAvailable(m)
            THEN [h EXCEPT !.pc = "analysing", !.aggregatedData = <<data>>]
            ELSE [h EXCEPT !.pc = "responded", !.aggregatedData = <<data>>,
                    !.responses = <<Envelope(data, Placeholder)>>]
    ELSE h

\* the state of the soil call kept at module level, one for all invocations
StoreShared(hs, i, h) ==
    [j \in DOMAIN hs |-> IF j = i THEN h ELSE [hs[j] EXCEPT !.soil = h.soil]]

\* the locals of invocation i are its own: const and let of the async function
StoreLocal(hs, i, h) == [hs EXCEPT ![i] = h]

PairBodies ==
    {Body(Num(10), Num(123), Str(<<"Z", "e">>), Plot),
     Body(Num(20), Num(30), Str(<<"Z", "E">>), Str(<<"q">>)),
     Body(Num(20), Num(30), Str(<<"m">>), Str(<<"q">>))}

PairNasaOutcomes == {HttpOk("full"), HttpThrow("ETIMEDOUT")}
PairOpenWeatherOutcomes == {HttpOk("full"), HttpBad("500", "json")}
PairSoilOutcomes == {HttpOk("full"), HttpThrow("ETIMEDOUT")}

PairGeminiOutcomes ==
    {GeminiOutcome("reject", "missing", "absent", <<>>, <<>>, SdkError(<<"fetch failed">>, "", "")),
     GeminiOutcome("resolve", "present", "fn", <<"Feasibility Score (1-10)", "", "7/10">>,
                   <<Candidate("STOP", "")>>, NoError)}

PairArrives(i, b) ==
    /\ handlers[i].pc = "idle"
    /\ handlers' = StoreLocal(handlers, i, HandlerArrives(b, plantData))
    /\ UNCHANGED <<requestVars, pageVars>>

PairNasaSettles(i, o) ==
    /\ handlers[i].nasa.st = "pending"
    /\ handlers' = StoreLocal(handlers, i,
            HandlerContinues([handlers[i] EXCEPT !.nasa = FetchNasaPowerAPI(o),
                                                 !.nasaSeen = <<o>>], model))
    /\ UNCHANGED <<requestVars, pageVars>>

PairOpenWeatherSettles(i, o) ==
    /\ handlers[i].ow.st = "pending"
    /\ handlers' = StoreLocal(handlers, i,
            HandlerContinues([handlers[i] EXCEPT !.ow = FetchOpenWeatherAPI(o),
                                                 !.owSeen = <<o>>], model))
    /\ UNCHANGED <<requestVars, pageVars>>

PairSoilSettles(i, o) ==
    /\ handlers[i].soil.st = "pending"
    /\ handlers' = StoreLocal(handlers, i,
            HandlerContinues([handlers[i] EXCEPT !.soil = SoilOnOutcome(@, o)], model))
    /\ UNCHANGED <<requestVars, pageVars>>

PairSoilWakes(i) ==
    /\ handlers[i].soil.st = "sleeping"
    /\ handlers' = StoreLocal(handlers, i,
            HandlerContinues([handlers[i] EXCEPT !.soil = SoilAfterSleep(@)], model))
    /\ UNCHANGED <<requestVars, pageVars>>

PairGeminiSettles(i, g) ==
    /\ handlers[i].pc = "analysing"
    /\ handlers' = StoreLocal(handlers, i,
            [handlers[i] EXCEPT !.pc = "responded", !.geminiSeen = <<g>>,
                !.responses = <<Envelope(handlers[i].aggregatedData[1],
                                         GetAnalysisFromGemini(g))>>])
    /\ UNCHANGED <<requestVars, pageVars>>

InitPair ==
    /\ plantData = [i \in 1..Len(CsvFile) |-> ProcessRow(CsvFile[i])]
    /\ csvPos = Len(CsvFile)
    /\ csvEnded = TRUE
    /\ model \in InitialModels
    /\ pc = "idle"
    /\ req = NoBody
    /\ plantInfo = <<>>
    /\ nasa = Idle
    /\ ow = Idle
    /\ soil = SoilIdle
    /\ calls = NoCalls
    /\ aggregatedData = <<>>
    /\ analysisArg = <<>>
    /\ gemini = <<>>
    /\ responses = <<>>
    /\ PageInit
    /\ handlers = [i \in PairIds |-> IdleHandler]

NextPair ==
    \E i \in PairIds :
        \/ \E b \in PairBodies : PairArrives(i, b)
        \/ \E o \in PairNasaOutcomes : PairNasaSettles(i, o)
        \/ \E o \in PairOpenWeatherOutcomes : PairOpenWeatherSettles(i, o)
        \/ \E o \in PairSoilOutcomes : PairSoilSettles(i, o)
        \/ PairSoilWakes(i)
        \/ \E g \in PairGeminiOutcomes : PairGeminiSettles(i, g)

SpecPair == InitPair /\ [][NextPair]_vars

---------------------------------------------------------------------------
(* Analyzepage.vue: the plant search box *)

\* String.prototype.includes
Includes(s, q) == \E k \in 0..(Len(s) - Len(q)) : SubSeq(s, k + 1, k + Len(q)) = q

\* String.prototype.trim; the blank is the only white space of the model
RECURSIVE TrimStart(_)
TrimStart(s) == IF s # <<>> /\ Head(s) = " " THEN TrimStart(Tail(s)) ELSE s

RECURSIVE TrimEnd(_)
TrimEnd(s) == IF s # <<>> /\ s[Len(s)] = " " THEN TrimEnd(SubSeq(s, 1, Len(s) - 1)) ELSE s

Trim(s) == TrimEnd(TrimStart(s))

\* String.prototype.split(','): the pieces between the commas
RECURSIVE Split(_)
Split(s) ==
    IF \A i \in 1..Len(s) : s[i] # ","
    THEN <<s>>
    ELSE LET k == CHOOSE i \in 1..Len(s) : s[i] = "," /\ \A j \in 1..(i - 1) : s[j] # ","
         IN <<SubSeq(s, 1, k - 1)>> \o Split(SubSeq(s, k + 1, Len(s)))

\* COMNAME.split(',').map(name => name.trim()), the empty list for an empty COMNAME
OriginalCommonNames(comname) ==
    IF comname = <<>> THEN <<>>
    ELSE [i \in 1..Len(Split(comname)) |-> Trim(Split(comname)[i])]

\* COMNAME.split(',').map(name => name.trim().toLowerCase())
CommonNamesArray(comname) ==
    IF comname = <<>> THEN <<>>
    ELSE [i \in 1..Len(Split(comname)) |-> ToLowerCase(Trim(Split(comname)[i]))]

\* a record of the answer of /api/plants, and what fetchAllPlants makes of it
PlantRow(name, comname) == [ScientificName |-> name, COMNAME |-> comname]

ProcessPlant(p) ==
    [ScientificName |-> p.ScientificName,
     COMNAME |-> p.COMNAME,
     commonNamesArray |-> CommonNamesArray(p.COMNAME),
     ScientificNameLower |-> IF p.ScientificName # <<>> THEN ToLowerCase(p.ScientificName)
                             ELSE <<>>]

\* Array.prototype.find over strings: the index of the first one that includes q, or 0
FindIncluding(names, q) ==
    IF \E i \in 1..Len(names) : Includes(names[i], q)
    THEN CHOOSE i \in 1..Len(names) :
            Includes(names[i], q) /\ \A j \in 1..(i - 1) : ~Includes(names[j], q)
    ELSE 0

MaxSuggestions == 7

\* an entry of the list; matchedCommonName is null (empty) or one name
Suggestion(name, matched) == [ScientificName |-> name, matchedCommonName |-> matched]

\* a list in which a name is never taken as already added
NeverAdded(added, name) == FALSE

\* addedScientificNames.has(plant.ScientificName)
AlreadyAdded(added, name) == name \in added

\* the lower-cased name that matched, where the code reports the original one
MatchedCommonNameLower(p, query) ==
    p.commonNamesArray[FindIncluding(p.commonNamesArray, query)]

\* originalMatched || foundCommonNameInArray
MatchedCommonName(p, query) ==
    LET originals == OriginalCommonNames(p.COMNAME)
        k == FindIncluding([i \in 1..Len(originals) |-> ToLowerCase(originals[i])], query)
    IN IF k > 0 /\ originals[k] # <<>>
       THEN originals[k]
       ELSE p.commonNamesArray[FindIncluding(p.commonNamesArray, query)]

\* the for loop of handlePlantInput from record i on, with the list and the set
\* built so far
RECURSIVE ScanPlants(_, _, _, _, _)
ScanPlants(plants, i, query, filtered, added) ==
    IF i > Len(plants) THEN filtered
    ELSE LET p == plants[i]
             byScientific == p.ScientificNameLower # <<>> /\ Includes(p.ScientificNameLower, query)
             byCommon == /\ ~byScientific
                         /\ Len(p.commonNamesArray) > 0
                         /\ FindIncluding(p.commonNamesArray, query) > 0
             push == (byScientific \/ byCommon) /\ ~AlreadyAdded(added, p.ScientificName)
             entry == IF byScientific THEN Suggestion(p.ScientificName, <<>>)
                      ELSE Suggestion(p.ScientificName, <<MatchedCommonName(p, query)>>)
             filtered2 == IF push THEN Append(filtered, entry) ELSE filtered
             added2 == IF push THEN added \cup {p.ScientificName} ELSE added
         IN IF Len(filtered2) >= MaxSuggestions THEN filtered2
            ELSE ScanPlants(plants, i + 1, query, filtered2, added2)

\* the records the server is asked for: names met twice, with and without common
\* names, records without a scientific name
PlantRows ==
    <<PlantRow(<<"Z", "a">>, <<"M", "z", ",", " ", "k">>),
      PlantRow(<<"Z", "b">>, <<>>),
      PlantRow(<<"Z", "a">>, <<"m">>),
      PlantRow(<<>>, <<"z", "k">>),
      PlantRow(<<"Z", "c">>, <<"k", ",", "K", "m">>),
      PlantRow(<<"Z", "d">>, <<>>),
      PlantRow(<<"b">>, <<" ", "M", "k", " ", ",", "m", "k">>),
      PlantRow(<<"Z", "e">>, <<>>),
      PlantRow(<<"Z", "f">>, <<>>),
      PlantRow(<<"Z", "g">>, <<>>),
      PlantRow(<<"Z", "h">>, <<>>),
      PlantRow(<<>>, <<"K", "z">>)>>

\* the tables: the runs of consecutive records
PlantTables ==
    {SubSeq(PlantRows, i, j) : i \in 1..Len(PlantRows), j \in 1..Len(PlantRows)} \ {<<>>}

\* what is typed in the box
SearchInputs ==
    {<<>>, <<" ", " ">>, <<"Z">>, <<" ", "z", " ">>, <<"k">>, <<"M", "K">>, <<"a">>,
     <<"x">>, <<"m">>}

\* fetchAllPlants: the answer of /api/plants is kept with the two derived fields
FetchAllPlants(rows) ==
    /\ ~plantsFetched
    /\ plantsFetched' = TRUE
    /\ allPlants' = [i \in 1..Len(rows) |-> ProcessPlant(rows[i])]
    /\ UNCHANGED <<plantSearchInput, plant, plantSuggestions, showPlantSuggestions>>
    /\ UNCHANGED serverVars
    /\ UNCHANGED homeVars
    /\ UNCHANGED analysisVars

\* fetchAllPlants when the request fails: the catch block keeps the empty table
FetchAllPlantsFails ==
    /\ ~plantsFetched
    /\ plantsFetched' = TRUE
    /\ UNCHANGED <<allPlants, plantSearchInput, plant, plantSuggestions, showPlantSuggestions>>
    /\ UNCHANGED serverVars
    /\ UNCHANGED homeVars
    /\ UNCHANGED analysisVars

\* a set that still holds the names of the list computed before
StaleAddedNames ==
    {plantSuggestions[k].ScientificName : k \in 1..Len(plantSuggestions)}

\* const addedScientificNames = new Set(): empty at every run
NewAddedNames == {}

\* text is typed in the box (v-model) and the input handler runs
HandlePlantInput(text) ==
    /\ plantSearchInput' = text
    /\ LET query == ToLowerCase(Trim(text))
       IN IF query = <<>>
          THEN /\ plantSuggestions' = <<>>
               /\ showPlantSuggestions' = FALSE
               /\ plant' = <<>>
          ELSE LET filtered == ScanPlants(allPlants, 1, query, <<>>, NewAddedNames)
               IN /\ plantSuggestions' = filtered
                  /\ showPlantSuggestions' = (Len(filtered) > 0)
                  /\ UNCHANGED plant
    /\ UNCHANGED <<allPlants, plantsFetched>>
    /\ UNCHANGED serverVars
    /\ UNCHANGED homeVars
    /\ UNCHANGED analysisVars

\* an entry of the displayed list is clicked
SelectPlantSuggestion(k) ==
    /\ showPlantSuggestions
    /\ k \in 1..Len(plantSuggestions)
    /\ plant' = plantSuggestions[k].ScientificName
    /\ plantSearchInput' = plantSuggestions[k].ScientificName
    /\ showPlantSuggestions' = FALSE
    /\ plantSuggestions' = <<>>
    /\ UNCHANGED <<allPlants, plantsFetched>>
    /\ UNCHANGED serverVars
    /\ UNCHANGED homeVars
    /\ UNCHANGED analysisVars

\* the timer set by handlePlantInputBlur fires
BlurTimeout ==
    /\ showPlantSuggestions
    /\ showPlantSuggestions' = FALSE
    /\ UNCHANGED <<allPlants, plantsFetched, plantSearchInput, plant, plantSuggestions>>
    /\ UNCHANGED serverVars
    /\ UNCHANGED homeVars
    /\ UNCHANGED analysisVars

\* the box gets the focus
FocusInput ==
    /\ showPlantSuggestions' = (Len(plantSuggestions) > 0 /\ Len(plantSearchInput) > 0)
    /\ UNCHANGED <<allPlants, plantsFetched, plantSearchInput, plant, plantSuggestions>>
    /\ UNCHANGED serverVars
    /\ UNCHANGED homeVars
    /\ UNCHANGED analysisVars

InitPage == Init /\ model = "null"

NextPage ==
    \/ \E rows \in PlantTables : FetchAllPlants(rows)
    \/ FetchAllPlantsFails
    \/ \E text \in SearchInputs : HandlePlantInput(text)
    \/ \E k \in 1..MaxSuggestions : SelectPlantSuggestion(k)
    \/ BlurTimeout
    \/ FocusInput

SpecPage == InitPage /\ [][NextPage]_vars

---------------------------------------------------------------------------
(* Lookups and suggestions repeated over a loaded table *)

InitRepeat ==
    /\ plantData = [i \in 1..Len(CsvFile) |-> ProcessRow(CsvFile[i])]
    /\ csvPos = Len(CsvFile)
    /\ csvEnded = TRUE
    /\ model = "null"
    /\ pc = "idle"
    /\ req = NoBody
    /\ plantInfo = <<>>
    /\ nasa = Idle
    /\ ow = Idle
    /\ soil = SoilIdle
    /\ calls = NoCalls
    /\ aggregatedData = <<>>
    /\ analysisArg = <<>>
    /\ gemini = <<>>
    /\ responses = <<>>
    /\ PageInit
    /\ handlers = <<>>

RepeatTables == {PlantRows, SubSeq(PlantRows, 1, 3)}

NextRepeat ==
    \/ \E b \in Bodies : PostCombinedData(b)
    \/ NasaSettles(HttpOk("full"))
    \/ OpenWeatherSettles(HttpOk("full"))
    \/ SoilSettles(HttpOk("full"))
    \/ \E rows \in RepeatTables : FetchAllPlants(rows)
    \/ \E text \in SearchInputs : HandlePlantInput(text)
    \/ \E k \in 1..MaxSuggestions : SelectPlantSuggestion(k)

SpecRepeat == InitRepeat /\ [][NextRepeat]_vars

---------------------------------------------------------------------------
(* Properties *)

\* no record of the table has the requested name, compared without case
NoRecordMatches(table, name) ==
    ~\E i \in 1..Len(table) : name.t = "string" /\ NameMatches(table[i], name)

NoClientCalled(c) == c.nasa = 0 /\ c.ow = 0 /\ c.soil = 0

\* C1: a request that passes validation and whose plantScientificName matches no
\* record of the table is answered 404, and none of the three source clients nor
\* getAnalysisFromGemini is invoked for it.
C1_UnknownSpeciesAnswered404 ==
    [][\A b \in Bodies :
        (PostCombinedData(b) /\ ~ValidationFails(b)
            /\ NoRecordMatches(plantData, b.plantScientificName))
        => (/\ Len(responses') = 1
            /\ responses'[1].status = "404"
            /\ NoClientCalled(calls')
            /\ calls'.analysis = 0)]_vars

SlotFilled(r) == r.tag \in {"payload", "error"}

ValidCoordinates(b) == b.latitude.t = "number" /\ b.longitude.t = "number"

\* C2: for a request with valid coordinates and a species of the table, whatever
\* the three providers did, the three slots of the aggregated record each hold a
\* payload or an error object, never null or nothing.
C2_EverySlotPayloadOrError ==
    (aggregatedData # <<>> /\ ValidCoordinates(req)) =>
        /\ SlotFilled(aggregatedData[1].location_conditions.nasa_power)
        /\ SlotFilled(aggregatedData[1].location_conditions.open_weather)
        /\ SlotFilled(aggregatedData[1].location_conditions.soil_type_probabilities)

\* one of the four fields is absent from the body
FieldMissing(b) ==
    \/ b.latitude.t = "undefined"
    \/ b.longitude.t = "undefined"
    \/ b.plantScientificName.t = "undefined"
    \/ b.planDescription.t = "undefined"

\* C3: a request with one of latitude, longitude, plantScientificName or
\* planDescription missing is answered 400 and nothing else is done for it: no
\* lookup, no source-client call, no analysis call.
C3_MissingFieldAnswered400 ==
    (pc # "idle" /\ FieldMissing(req)) =>
        /\ pc = "responded"
        /\ Len(responses) = 1
        /\ responses[1].status = "400"
        /\ calls = NoCalls
        /\ plantInfo = <<>>
        /\ nasa = Idle /\ ow = Idle /\ soil = SoilIdle
        /\ aggregatedData = <<>> /\ analysisArg = <<>>

\* a request with only planDescription missing, the table being loaded, got its 400
C3_Witness ==
    /\ pc = "responded"
    /\ req = Body(Num(10), Num(123), Str(<<"Z", "e">>), Undefined)
    /\ Len(plantData) = Len(CsvFile)
    /\ responses[1].status = "400"

\* C4: the three client calls of a request are independent. None of them ever
\* rejects, so the join is never cut short and its catch branch never answers; a
\* call that is pending can settle whatever the other two are doing; nothing is
\* answered while a call is still running; and the record is built from the three
\* calls' own results once all three have returned.
C4_ClientsIndependent ==
    /\ "rejected" \notin {nasa.st, ow.st, soil.st}
    /\ \A i \in 1..Len(responses) :
          ~(responses[i].status = "500" /\ responses[i].details[1] = "External API fetch error:")
    /\ (pc = "fetching" => responses = <<>> /\ aggregatedData = <<>>)
    /\ (nasa.st = "pending" => ENABLED (\E o \in ServerHttpOutcomes : NasaSettles(o)))
    /\ (ow.st = "pending" => ENABLED (\E o \in ServerHttpOutcomes : OpenWeatherSettles(o)))
    /\ (soil.st = "pending" => ENABLED (\E o \in ServerSoilOutcomes : SoilSettles(o)))
    /\ (soil.st = "sleeping" => ENABLED SoilWakes)
    /\ (pc \in {"fetching", "analysing"} =>
          /\ nasa.st \in {"pending", "fulfilled"}
          /\ ow.st \in {"pending", "fulfilled"}
          /\ soil.st \in {"pending", "sleeping", "fulfilled"})
    /\ (aggregatedData # <<>> =>
          /\ JoinFulfilled(nasa, ow, soil)
          /\ aggregatedData[1].location_conditions.nasa_power = nasa.res[1]
          /\ aggregatedData[1].location_conditions.open_weather = ow.res[1]
          /\ aggregatedData[1].location_conditions.soil_type_probabilities = soil.res[1])

\* the soil call failed on every attempt, sleeping in between, the NASA call met a
\* transport error and the OpenWeather call succeeded: the record holds all three
C4_Witness ==
    /\ aggregatedData # <<>>
    /\ Len(soil.sleeps) = 2
    /\ aggregatedData[1].location_conditions.soil_type_probabilities.tag = "error"
    /\ aggregatedData[1].location_conditions.nasa_power.error
          = <<"Failed to fetch NASA POWER data:", "ETIMEDOUT">>
    /\ aggregatedData[1].location_conditions.open_weather.tag = "payload"

\* a non-success status or a transport error
HttpFailure(o) == o.kind \in {"bad", "throw"}

\* C5: called with its default settings, fetchSoilAPIWithRetry has ceiling 3; when
\* the provider fails on the first two attempts and succeeds on the third, the call
\* sleeps 1 x 1500 ms after the first failure and 2 x 1500 ms after the second,
\* 4500 ms in all, and returns the payload after exactly 3 fetches.
C5_TwoFailuresThenSuccess ==
    pc # "idle" /\ soil.st # "idle" =>
        /\ soil.retries = 3
        /\ (Len(soil.log) >= 1 /\ HttpFailure(soil.log[1]) =>
              /\ Len(soil.sleeps) >= 1
              /\ soil.sleeps[1] = 1 * 1500
              /\ (Len(soil.log) = 1 => soil.st \in {"sleeping", "pending"}))
        /\ (Len(soil.log) >= 2 /\ HttpFailure(soil.log[1]) /\ HttpFailure(soil.log[2]) =>
              /\ Len(soil.sleeps) = 2
              /\ soil.sleeps[2] = 2 * 1500
              /\ soil.sleeps[1] + soil.sleeps[2] = 3 * 1500
              /\ (Len(soil.log) = 2 => soil.st \in {"sleeping", "pending"}))
        /\ (Len(soil.log) = 3 /\ HttpFailure(soil.log[1]) /\ HttpFailure(soil.log[2])
                /\ soil.log[3] = HttpOk("full") =>
              /\ soil.st = "fulfilled"
              /\ soil.res = <<Payload("soil.properties.probabilities")>>
              /\ soil.fetches = 3)

\* a non-success status, then a transport error, then the success
C5_Witness ==
    /\ pc # "idle"
    /\ soil.st = "fulfilled"
    /\ soil.log = <<HttpBad("503", "notjson"), HttpThrow("ETIMEDOUT"), HttpOk("full")>>
    /\ soil.res[1].tag = "payload"

\* what identifies a failure: the status of the response, or the message of the error
FailureDetail(o) == IF o.kind = "bad" THEN o.status ELSE o.msg

\* the error object carries the detail of failure o, seen at the given attempt
CarriesDetailOf(r, o, attempt) ==
    /\ r.tag = "error"
    /\ r.error[Len(r.error)] = FailureDetail(o)
    /\ (o.kind = "bad" =>
          r.details = IF o.body = "json" THEN <<"body", o.status>>
                      ELSE <<"Soil API responded with", o.status, "on attempt", ToString(attempt)>>)

AllAttemptsFailed(s) == \A i \in 1..Len(s.log) : HttpFailure(s.log[i])

\* C6: called with ceiling N >= 1 against a provider that fails on every attempt,
\* fetchSoilAPIWithRetry makes exactly N fetches, neither more nor fewer, and
\* returns an error object with the detail of the N-th failure.
C6_ExhaustionAfterCeiling ==
    soil.retries >= 1 =>
        /\ soil.fetches <= soil.retries
        /\ Len(soil.log) <= soil.fetches
        /\ (AllAttemptsFailed(soil) /\ Len(soil.log) < soil.retries => soil.st # "fulfilled")
        /\ (AllAttemptsFailed(soil) /\ Len(soil.log) = soil.retries =>
              /\ soil.st = "fulfilled"
              /\ soil.fetches = soil.retries
              /\ CarriesDetailOf(soil.res[1], soil.log[soil.retries], soil.retries))

\* three failures of three kinds under ceiling 3: the error names the third
C6_Witness ==
    /\ soil.retries = 3
    /\ soil.st = "fulfilled"
    /\ soil.log = <<HttpThrow("ETIMEDOUT"), HttpBad("500", "json"), HttpBad("503", "notjson")>>
    /\ soil.res[1].error = <<"Soil API failed after", "3", "attempts:", "503">>

\* C7: a response with a success status ends the call at that attempt: a body
\* without the expected structure (or that is not JSON) gives an error result at
\* once, with no further attempt and no sleep after it.
C7_SuccessStatusNeverRetried ==
    \A i \in 1..Len(soil.log) :
        soil.log[i].kind = "ok" =>
            /\ i = Len(soil.log)
            /\ soil.st = "fulfilled"
            /\ Len(soil.sleeps) = i - 1
            /\ (soil.log[i].body # "full" => soil.res[1].tag = "error")

NotInitialized == "Gemini model not initialized in gemini.js"

\* C8: with no model (GEMINI_API_KEY unset), getAnalysisFromGemini answers success
\* false with the error "Gemini model not initialized in gemini.js", which no
\* other result carries, and generateContent is never called.
C8_NoModelNoBackendCall ==
    /\ (model = "null" =>
          /\ calls.generateContent = 0
          /\ pc # "analysing"
          /\ (calls.analysis > 0 =>
                /\ Len(responses) = 1
                /\ responses[1].ai_analysis # <<>>
                /\ responses[1].ai_analysis[1].success = FALSE
                /\ responses[1].ai_analysis[1].error = NotInitialized))
    /\ (model # "null" =>
          \A i \in 1..Len(responses) :
              responses[i].ai_analysis # <<>> => responses[i].ai_analysis[1].error # NotInitialized)

\* without a model, a request went through the three clients and was answered
C8_Witness ==
    /\ model = "null"
    /\ calls.analysis = 1
    /\ pc = "responded"
    /\ responses[1].status = "200"
    /\ responses[1].ai_analysis[1].success = FALSE

\* the backend answered, but with nothing to read: no response, no text member, or
\* a text() that yields the empty string
EmptyOrBlocked(g) ==
    /\ g.gen = "resolve"
    /\ \/ g.resp = "missing"
       \/ g.resp = "present" /\ g.text = "absent"
       \/ g.resp = "present" /\ g.text = "fn" /\ g.textVal = <<>>

\* C9: when the backend answers with empty or blocked content, the result has
\* success false and its details name the finish reason and the safety ratings;
\* no result has success true with an empty or missing analysis_text.
C9_EmptyContentIsFailure ==
    \A i \in 1..Len(responses) :
        responses[i].ai_analysis # <<>> =>
            LET a == responses[i].ai_analysis[1]
            IN /\ (a.success => a.hasText /\ a.analysis_text # <<>>)
               /\ (gemini # <<>> /\ EmptyOrBlocked(gemini[1]) =>
                      /\ ~a.success
                      /\ a.hasDetails
                      /\ a.details[1] = "Finish Reason:"
                      /\ a.details[3] = "Safety Ratings:")

\* generateContent, result.response or response.text() threw
BackendThrew(g) ==
    \/ g.gen = "reject"
    \/ g.gen = "resolve" /\ g.resp = "reject"
    \/ g.gen = "resolve" /\ g.resp = "present" /\ g.text = "fnThrows"

\* the tokens of part appear in whole, in order and adjacent
Contains(whole, part) ==
    \E k \in 0..(Len(whole) - Len(part)) : SubSeq(whole, k + 1, k + Len(part)) = part

\* C10 as stated: when the backend call throws, the exception does not leave
\* getAnalysisFromGemini, and the result has success false and details that
\* contain the message of the error.
C10_DetailsHoldThrownMessage ==
    (pc = "responded" /\ gemini # <<>> /\ BackendThrew(gemini[1])) =>
        /\ responses[1].status = "200"
        /\ ~responses[1].ai_analysis[1].success
        /\ responses[1].ai_analysis[1].hasDetails
        /\ Contains(responses[1].ai_analysis[1].details, gemini[1].err.message)

InvalidKeyText == <<"Gemini API key not valid. Please check your API key configuration.">>

\* the error for which the catch block replaces the message
InvalidKeyError(e) == e.blockReason = "" /\ MentionsInvalidKey(e.message)

\* C10 amended: when the backend call throws, the exception does not leave
\* getAnalysisFromGemini and the result has success false; its details contain the
\* message of the error, unless the message mentions "api key not valid" and the
\* error has no block reason: then details is the fixed invalid-key text.
C10_DetailsHoldMessageOrKeyText ==
    (pc = "responded" /\ gemini # <<>> /\ BackendThrew(gemini[1])) =>
        /\ Len(responses) = 1
        /\ responses[1].status = "200"
        /\ ~responses[1].ai_analysis[1].success
        /\ responses[1].ai_analysis[1].hasDetails
        /\ IF InvalidKeyError(gemini[1].err)
           THEN responses[1].ai_analysis[1].details = InvalidKeyText
           ELSE Contains(responses[1].ai_analysis[1].details, gemini[1].err.message)

\* generateContent rejected with a network error and the envelope reports it
C10_Witness ==
    /\ pc = "responded"
    /\ gemini # <<>>
    /\ gemini[1].gen = "reject"
    /\ gemini[1].err.message = <<"fetch failed">>
    /\ responses[1].ai_analysis[1].details = <<"fetch failed">>

\* the analysis of the request failed: no model, a throwing backend call, or an
\* answer with nothing to read
AnalysisFailed ==
    \/ ~ModelAvailable(model) /\ calls.analysis > 0
    \/ gemini # <<>> /\ (BackendThrew(gemini[1]) \/ EmptyOrBlocked(gemini[1]))

\* C11: for a request with a resolved species, a failed analysis (no model, call
\* rejected, or empty content) does not block the environmental data: the answer
\* is the 200 envelope with the complete aggregated record, its three slots
\* filled, next to an analysis block whose success is false.
C11_FailedAnalysisKeepsData ==
    (pc = "responded" /\ plantInfo # <<>> /\ AnalysisFailed) =>
        /\ Len(responses) = 1
        /\ responses[1].status = "200"
        /\ responses[1].data_summary = aggregatedData
        /\ aggregatedData # <<>>
        /\ SlotFilled(aggregatedData[1].location_conditions.nasa_power)
        /\ SlotFilled(aggregatedData[1].location_conditions.open_weather)
        /\ SlotFilled(aggregatedData[1].location_conditions.soil_type_probabilities)
        /\ responses[1].ai_analysis # <<>>
        /\ responses[1].ai_analysis[1].success = FALSE

\* the soil call of the request used up its three attempts on failures
SoilExhausted(s) ==
    /\ s.st = "fulfilled"
    /\ Len(s.log) = s.retries
    /\ AllAttemptsFailed(s)

IsPayload(c) == c.st = "fulfilled" /\ c.res[1].tag = "payload"

\* the error object reports that all attempts were used
ExhaustionMessage(r, retries) ==
    /\ r.tag = "error"
    /\ r.error[1] \in {"Soil API failed after", "Soil API fetch failed after"}
    /\ r.error[2] = ToString(retries)
    /\ r.error[3] = "attempts:"

\* C12: when the soil provider fails on every attempt and the other two sources
\* succeed, the record is still built: its soil slot holds the retry-exhaustion
\* error, the other two slots their payloads; getAnalysisFromGemini is invoked
\* once with that record, and the answer, once sent, is the 200 envelope with it.
C12_SoilExhaustedStillAnswered ==
    (pc # "idle" /\ plantInfo # <<>> /\ SoilExhausted(soil) /\ IsPayload(nasa) /\ IsPayload(ow)) =>
        /\ pc \in {"analysing", "responded"}
        /\ aggregatedData # <<>>
        /\ ExhaustionMessage(aggregatedData[1].location_conditions.soil_type_probabilities,
                             DefaultRetries)
        /\ aggregatedData[1].location_conditions.nasa_power = nasa.res[1]
        /\ aggregatedData[1].location_conditions.open_weather = ow.res[1]
        /\ calls.analysis = 1
        /\ analysisArg = aggregatedData
        /\ (pc = "responded" =>
              /\ Len(responses) = 1
              /\ responses[1].status = "200"
              /\ responses[1].data_summary = aggregatedData
              /\ responses[1].ai_analysis # <<>>)

\* three transport errors on the soil call, two payloads, and the envelope was
\* sent with the analysis text
C12_Witness ==
    /\ pc = "responded"
    /\ SoilExhausted(soil)
    /\ soil.log[3] = HttpThrow("ETIMEDOUT")
    /\ IsPayload(nasa) /\ IsPayload(ow)
    /\ responses[1].status = "200"
    /\ responses[1].data_summary[1].location_conditions.soil_type_probabilities.error
          = <<"Soil API fetch failed after", "3", "attempts:", "ETIMEDOUT">>
    /\ responses[1].ai_analysis[1].success

\* C13: every request that passes validation and finds its species eventually
\* receives a response, whatever the external collaborators do: no hung provider
\* or backend stalls the request forever.
C13_ValidatedRequestEventuallyAnswered ==
    (pc \in {"fetching", "analysing"}) ~> (pc = "responded")

\* the order of the steps, as seen in a state
StepsInOrder ==
    /\ (calls.nasa > 0 \/ calls.ow > 0 \/ calls.soil > 0 =>
          /\ calls.lookup = 1
          /\ plantInfo # <<>>
          /\ ~LookupThrows(plantData, req.plantScientificName)
          /\ NameMatches(plantInfo[1], req.plantScientificName))
    /\ (calls.analysis > 0 =>
          /\ JoinFulfilled(nasa, ow, soil)
          /\ analysisArg # <<>>
          /\ analysisArg[1].location_conditions.nasa_power = nasa.res[1]
          /\ analysisArg[1].location_conditions.open_weather = ow.res[1]
          /\ analysisArg[1].location_conditions.soil_type_probabilities = soil.res[1])
    /\ \A i \in 1..Len(responses) :
          responses[i].status = "200" =>
              /\ calls.analysis = 1
              /\ (ModelAvailable(model) => gemini # <<>>)
              /\ responses[i].data_summary = analysisArg

\* the order of the steps, as seen in a step: a result, the record and the
\* argument of the analysis, once written, are not written again for the request
WrittenOnce ==
    /\ (nasa.st = "fulfilled" /\ pc # "responded" => nasa' = nasa)
    /\ (ow.st = "fulfilled" /\ pc # "responded" => ow' = ow)
    /\ (soil.st = "fulfilled" /\ pc # "responded" => soil' = soil)
    /\ (aggregatedData # <<>> /\ pc # "responded" => aggregatedData' = aggregatedData)
    /\ (analysisArg # <<>> /\ pc # "responded" => analysisArg' = analysisArg)
    /\ (calls'.analysis > calls.analysis => JoinFulfilled(nasa', ow', soil') /\ aggregatedData = <<>>)
    /\ (calls'.nasa > calls.nasa \/ calls'.ow > calls.ow \/ calls'.soil > calls.soil =>
          plantInfo' # <<>> /\ pc \in {"idle", "responded"})
    /\ (Len(responses') > Len(responses) /\ responses'[Len(responses')].status = "200" =>
          calls'.analysis = 1 /\ (pc = "analysing" \/ ~ModelAvailable(model)))

\* C14: within one request the species lookup succeeds before any source-client
\* call starts; getAnalysisFromGemini is invoked only after the three client calls
\* have completed, with a record whose three slots hold their final results; the
\* response is sent only after the analysis returned; no slot is written twice.
C14_FixedOrderOfSteps == []StepsInOrder /\ [][WrittenOnce]_vars

\* a request answered after the soil call slept once and the analysis returned
C14_Witness ==
    /\ pc = "responded"
    /\ responses[1].status = "200"
    /\ Len(soil.sleeps) = 1
    /\ gemini # <<>>
    /\ responses[1].data_summary[1].location_conditions.soil_type_probabilities = soil.res[1]
    /\ soil.res[1].tag = "payload"

\* the calls made for the current request
CalledOnce ==
    /\ calls.analysis <= 1
    /\ calls.generateContent <= calls.analysis
    /\ (plantInfo # <<>> => calls.nasa = 1 /\ calls.ow = 1 /\ calls.soil = 1)
    /\ (plantInfo = <<>> /\ pc # "idle" => NoClientCalled(calls) /\ calls.analysis = 0)
    /\ (soil.st # "idle" => soil.fetches <= soil.retries)

\* the return of the analysis, failed or not, starts nothing
AnalysisStartsNothing ==
    pc = "analysing" =>
        /\ calls' = calls
        /\ nasa' = nasa /\ ow' = ow /\ soil' = soil
        /\ pc' \in {"analysing", "responded"}

\* C15: per request getAnalysisFromGemini is called at most once and issues at
\* most one backend call, and a failed analysis never causes a source client to
\* be called again: for a resolved species each of the three client functions is
\* invoked exactly once.
C15_EachCallMadeOnce == []CalledOnce /\ [][AnalysisStartsNothing]_vars

\* the backend call was rejected and the request answered: one call of each
C15_Witness ==
    /\ pc = "responded"
    /\ gemini # <<>>
    /\ gemini[1].gen = "reject"
    /\ responses[1].ai_analysis[1].success = FALSE
    /\ calls = [lookup |-> 1, nasa |-> 1, ow |-> 1, soil |-> 1, analysis |-> 1,
                generateContent |-> 1]

\* an error object of one of the three error statuses, or the 200 envelope with
\* both the aggregated record and the analysis block
WellFormed(r) ==
    \/ /\ r.status \in {"400", "404"}
       /\ r.error # <<>>
       /\ r.data_summary = <<>> /\ r.ai_analysis = <<>>
    \/ /\ r.status = "500"
       /\ r.error # <<>> /\ r.details # <<>>
       /\ r.data_summary = <<>> /\ r.ai_analysis = <<>>
    \/ /\ r.status = "200"
       /\ r.error = <<>>
       /\ Len(r.data_summary) = 1
       /\ Len(r.ai_analysis) = 1
       /\ r.ai_analysis[1].success \in BOOLEAN

\* the responses sent for the current request
OneResponse ==
    /\ Len(responses) <= 1
    /\ (pc = "responded" <=> Len(responses) = 1)
    /\ (pc \in {"fetching", "analysing"} => responses = <<>>)
    /\ \A i \in 1..Len(responses) : WellFormed(responses[i])

\* a request that is over has been answered in the step that ended it, and the
\* handler does nothing more for it
AnsweredWhenOver ==
    /\ \A b \in Bodies :
          PostCombinedData(b) => (pc' = "responded" <=> Len(responses') = 1)
    /\ (pc \in {"fetching", "analysing"} /\ pc' = "responded" =>
          responses = <<>> /\ Len(responses') = 1)
    /\ (pc = "responded" /\ ~(\E b \in Bodies : PostCombinedData(b)) => responses' = responses)

\* C16: on every path through the handler of POST /api/get-combined-data exactly
\* one response is sent, never two and never none when the handler is over, and
\* it is well formed: a 400/404/500 error object or a 200 envelope with both the
\* aggregated record and the analysis block; an exception thrown inside the
\* handler is answered 500 and does not leave it.
C16_ExactlyOneWellFormedResponse == []OneResponse /\ [][AnsweredWhenOver]_vars

\* the exception thrown by the lookup was caught and answered, once
C16_Witness ==
    /\ pc = "responded"
    /\ LookupThrows(plantData, req.plantScientificName)
    /\ ~ValidationFails(req)
    /\ Len(responses) = 1
    /\ responses[1].status = "500"

\* C17: when an exception is thrown inside the try block of the handler for a
\* validated request, the answer is the 500 response, and the detail it carries
\* is redacted: it is not the raw message of the exception.
C17_ServerErrorDetailRedacted ==
    [][\A b \in Bodies :
        (PostCombinedData(b) /\ ~ValidationFails(b)
            /\ LookupThrows(plantData, b.plantScientificName))
        => (/\ Len(responses') = 1
            /\ responses'[1].status = "500"
            /\ responses'[1].error = <<"Failed to perform suitability analysis.">>
            /\ ~Contains(responses'[1].details, LookupErrorMessage))]_vars

\* C18: for every plant table and every query the suggestion list computed by
\* handlePlantInput has at most 7 entries and no two entries with the same
\* scientific name, also when the table holds several rows with the same name.
C18_AtMostSevenDistinctNames ==
    /\ Len(plantSuggestions) <= 7
    /\ \A i, j \in 1..Len(plantSuggestions) :
          i # j => plantSuggestions[i].ScientificName # plantSuggestions[j].ScientificName

\* more than 7 records of the table match, two of them under one name, and the
\* list is full
C18_Witness ==
    /\ Len(allPlants) = Len(PlantRows)
    /\ allPlants[1].ScientificName = allPlants[3].ScientificName
    /\ plantSearchInput = <<"Z">>
    /\ Len(plantSuggestions) = 7

\* a record matches a fragment: the fragment is part of its scientific name or of
\* one of its split, trimmed common names, case apart
MatchesByScientific(p, q) == Includes(ToLowerCase(p.ScientificName), q)

MatchesByCommon(p, q) ==
    \E k \in 1..Len(OriginalCommonNames(p.COMNAME)) :
        Includes(ToLowerCase(OriginalCommonNames(p.COMNAME)[k]), q)

Matching(plants, q) ==
    {i \in 1..Len(plants) : MatchesByScientific(plants[i], q) \/ MatchesByCommon(plants[i], q)}

\* the matching records that are the first of their scientific name to match
FirstOfName(plants, q) ==
    {i \in Matching(plants, q) :
        \A j \in Matching(plants, q) :
            j < i => plants[j].ScientificName # plants[i].ScientificName}

\* the first n members of a set of positions, and the rank of a member
FirstUpTo(S, n) == {i \in S : Cardinality({j \in S : j < i}) < n}
Rank(S, i) == Cardinality({j \in S : j <= i})

\* how a matching record is reported
Report(p, q) ==
    IF MatchesByScientific(p, q)
    THEN Suggestion(p.ScientificName, <<>>)
    ELSE LET originals == OriginalCommonNames(p.COMNAME)
             k == CHOOSE k \in 1..Len(originals) :
                     /\ Includes(ToLowerCase(originals[k]), q)
                     /\ \A j \in 1..(k - 1) : ~Includes(ToLowerCase(originals[j]), q)
         IN Suggestion(p.ScientificName, <<originals[k]>>)

\* list reports the records at the positions S, in table order
ReportsInOrder(list, plants, S, q) ==
    /\ Len(list) = Cardinality(S)
    /\ \A i \in S : list[Rank(S, i)] = Report(plants[i], q)

\* C19 as stated: handlePlantInput returns exactly the first (up to 7) matching
\* records in table order, a record matching if the lower-cased query is part of
\* its scientific name or, failing that, of one of its comma-split trimmed common
\* names; a scientific-name match has matchedCommonName null, a common-name match
\* the first common name, in original case, that contains the query.
C19_FirstSevenMatchingRecords ==
    [][\A text \in SearchInputs :
        HandlePlantInput(text) =>
            ReportsInOrder(plantSuggestions', allPlants,
                           FirstUpTo(Matching(allPlants, ToLowerCase(text)), 7),
                           ToLowerCase(text))]_vars

\* C19 amended: the query is trimmed and lower-cased; for a blank query the list
\* is empty; otherwise the list holds, in table order, the first (up to 7)
\* matching records that are the first of their scientific name to match, each
\* reported as the claim says.
C19_FirstSevenMatchingNames ==
    [][\A text \in SearchInputs :
        HandlePlantInput(text) =>
            LET q == ToLowerCase(Trim(text))
            IN IF q = <<>>
               THEN plantSuggestions' = <<>>
               ELSE ReportsInOrder(plantSuggestions', allPlants,
                                   FirstUpTo(FirstOfName(allPlants, q), 7), q)]_vars

\* the query MK found the record b by its common name, reported as written: Mk
C19_Witness ==
    /\ Len(allPlants) = Len(PlantRows)
    /\ plantSearchInput = <<"M", "K">>
    /\ plantSuggestions = <<Suggestion(<<"b">>, << <<"M", "k">> >>)>>
    /\ showPlantSuggestions

\* result r is an error object for the non-success status of o: it names the
\* status, and carries the parsed error body, or a synthesized message with the
\* status when the body does not parse
ErrorForStatus(r, o) ==
    /\ r.tag = "error"
    /\ r.error[Len(r.error)] = o.status
    /\ IF o.body = "json" THEN r.details = <<"body", o.status>>
       ELSE \E k \in 1..Len(r.details) : r.details[k] = o.status

\* the NASA and OpenWeather clients on a non-success status
SingleFetchClientsOnStatus ==
    \A o \in HttpOutcomes :
        o.kind = "bad" =>
            /\ NasaSettles(o) => nasa'.st = "fulfilled" /\ ErrorForStatus(nasa'.res[1], o)
            /\ OpenWeatherSettles(o) => ow'.st = "fulfilled" /\ ErrorForStatus(ow'.res[1], o)

NoClientRejects == "rejected" \notin {nasa.st, ow.st, soil.st}

\* C20 as stated: for a non-success status from the NASA, OpenWeather or soil
\* provider the client returns an error object, with the parsed error body, or
\* with a synthesized message that contains the status when the body does not
\* parse; no exception leaves the client.
C20_NonSuccessStatusGivesError ==
    /\ []NoClientRejects
    /\ [][SingleFetchClientsOnStatus]_vars
    /\ [](\A i \in 1..Len(soil.log) :
            soil.log[i].kind = "bad" /\ soil.st = "fulfilled" =>
                ErrorForStatus(soil.res[1], soil.log[i]))

\* C20 amended: as stated for the NASA and OpenWeather clients; the soil client
\* returns the error object for a non-success status of its last attempt, while
\* after a non-success status of an earlier attempt it returns nothing yet: it
\* sleeps and fetches again.
C20_NonSuccessStatusGivesErrorOrRetry ==
    /\ []NoClientRejects
    /\ [][SingleFetchClientsOnStatus]_vars
    /\ [][\A o \in SoilOutcomes :
            o.kind = "bad" /\ SoilSettles(o) =>
                IF soil.attempt = soil.retries
                THEN soil'.st = "fulfilled" /\ ErrorForStatus(soil'.res[1], o)
                ELSE soil'.st = "sleeping" /\ soil'.res = <<>>]_vars

\* the three clients returned: NASA after a 503 without JSON body, OpenWeather
\* after a 500 with one, soil after a 503 on its third attempt
C20_Witness ==
    /\ nasa.st = "fulfilled"
    /\ nasa.res[1].details = <<"NASA POWER API responded with", "503">>
    /\ ow.st = "fulfilled"
    /\ ow.res[1].details = <<"body", "500">>
    /\ soil.st = "fulfilled"
    /\ Len(soil.log) = 3
    /\ soil.log[3] = HttpBad("503", "notjson")
    /\ soil.res[1].tag = "error"

\* a success body without the sub-structure the system needs
LacksStructure(o) == o.kind = "ok" /\ o.body \in {"nofield", "noprops"}

\* the NASA and OpenWeather clients on such a body
SingleFetchClientsOnBareBody ==
    \A o \in HttpOutcomes :
        LacksStructure(o) =>
            /\ NasaSettles(o) => nasa'.st = "fulfilled" /\ nasa'.res[1].tag = "error"
            /\ OpenWeatherSettles(o) => ow'.st = "fulfilled" /\ ow'.res[1].tag = "error"

\* the soil client, once it returned after such a body
SoilOnBareBody ==
    \A i \in 1..Len(soil.log) :
        LacksStructure(soil.log[i]) /\ soil.st = "fulfilled" => soil.res[1].tag = "error"

\* C21: for each of the three source clients a response with a success status
\* whose body lacks the needed sub-structure yields an error object in that
\* source's slot, never a crash and never a payload: NASA without
\* properties.parameter, soil without properties.probabilities, OpenWeather without
\* the expected weather data.
C21_BareBodyGivesError ==
    /\ []NoClientRejects
    /\ [][SingleFetchClientsOnBareBody]_vars
    /\ []SoilOnBareBody

\* the scientific name of record p is the requested name, case apart
EqualIgnoringCase(p, name) ==
    /\ name.t = "string"
    /\ p.ScientificName.t = "string"
    /\ Len(p.ScientificName.s) = Len(name.s)
    /\ \A k \in 1..Len(name.s) : LowerChar(p.ScientificName.s[k]) = LowerChar(name.s[k])

\* the positions of the table whose record has the requested name
RecordsNamed(table, name) == {i \in 1..Len(table) : EqualIgnoringCase(table[i], name)}

\* C22: the lookup of the handler finds a record if and only if its scientific
\* name equals the requested name ignoring case: a name that is only part of a
\* stored name, or that contains one, or that is only a common name, is not
\* found; when several rows match, the first in table order is used.
C22_LookupExactIgnoringCase ==
    [][\A b \in Bodies :
        (PostCombinedData(b) /\ ~ValidationFails(b)) =>
            LET hits == RecordsNamed(plantData, b.plantScientificName)
            IN IF hits = {}
               THEN /\ plantInfo' = <<>>
                    /\ NoClientCalled(calls')
                    /\ (b.plantScientificName.t = "string" => responses'[1].status = "404")
               ELSE /\ plantInfo' # <<>>
                    /\ \E i \in hits :
                          /\ plantInfo'[1] = plantData[i]
                          /\ \A j \in hits : i <= j]_vars

\* two records are named Ze and ZE; the request for zE got the first of them
C22_Witness ==
    /\ Len(plantData) = Len(CsvFile)
    /\ req.plantScientificName = Str(<<"z", "E">>)
    /\ plantInfo # <<>>
    /\ plantInfo[1] = plantData[2]
    /\ plantData[3].ScientificName = Str(<<"Z", "E">>)

\* the text of a numeric column is a number: digits only, at least one
IsNumberText(text) == text # <<>> /\ \A k \in 1..Len(text) : text[k] \in Digits

NumericColumns == {"TMIN", "TMAX", "PHMIN", "PHMAX"}

\* C23: when the table is loaded every CSV row produces exactly one record, none
\* is dropped, and a numeric field (TMIN, TMAX, PHMIN, PHMAX) whose text is not a
\* number ('NA', the empty string, any other text) is stored as null, never as
\* zero and never as not-a-number.
C23_UnparsableFieldStoredAbsent ==
    /\ Len(plantData) = csvPos
    /\ (csvEnded => Len(plantData) = Len(CsvFile))
    /\ \A i \in 1..Len(plantData) :
          /\ plantData[i].ScientificName = Str(CsvFile[i].ScientificName)
          /\ \A c \in NumericColumns :
                IF IsNumberText(CsvFile[i][c])
                THEN plantData[i][c] = ParseFloatText(CsvFile[i][c]) /\ plantData[i][c].t = "number"
                ELSE plantData[i][c] = Null

\* the table as the load leaves it
LoadedTable == [i \in 1..Len(CsvFile) |-> ProcessRow(CsvFile[i])]

\* the species record of the aggregated record is, field by field, the record of
\* the table that was found
RecordIsCopy ==
    aggregatedData # <<>> =>
        /\ aggregatedData[1].plant_requirements = plantInfo[1]
        /\ \E i \in 1..Len(plantData) : plantData[i] = plantInfo[1]

\* C24: once the CSV load has ended plantData is never changed by any request:
\* no handler adds, removes or modifies a record, and the species record of an
\* aggregated record is a copy, so that building the record, the analysis call and
\* the response leave the table as it was loaded.
C24_TableFrozenAfterLoad ==
    /\ [](csvEnded => plantData = LoadedTable)
    /\ []RecordIsCopy
    /\ [][csvEnded => plantData' = plantData]_vars

\* after the load a request was answered with the record of Ze; the table is whole
C24_Witness ==
    /\ csvEnded
    /\ pc = "responded"
    /\ responses[1].status = "200"
    /\ responses[1].data_summary[1].plant_requirements = plantData[2]
    /\ plantData = LoadedTable

\* fetchSoilAPIWithRetry run alone from state s against the outcomes of log
RECURSIVE SoilRun(_, _)
SoilRun(s, log) ==
    IF log = <<>> \/ s.st # "pending" THEN s
    ELSE LET after == SoilOnOutcome(s, Head(log))
         IN IF after.st = "sleeping"
            THEN SoilRun(SoilAfterSleep(after), Tail(log))
            ELSE after

\* the response of a request handled alone: body b, table and model as given, and
\* the outcomes n, o, g (optional) and soilLog of its awaits
SoloResponse(b, table, m, n, o, soilLog, g) ==
    LET first == HandlerArrives(b, table)
    IN IF first.pc = "responded" THEN first.responses[1]
       ELSE LET data == AggregatedData(b, table[FindPlant(table, b.plantScientificName)],
                                       FetchNasaPowerAPI(n[1]).res[1],
                                       FetchOpenWeatherAPI(o[1]).res[1],
                                       SoilRun(SoilStart(DefaultRetries), soilLog).res[1])
            IN Envelope(data, IF ModelAvailable(m) THEN GetAnalysisFromGemini(g[1])
                              ELSE Placeholder)

\* every answered invocation got the response it would have got alone
AnsweredAsAlone ==
    \A i \in DOMAIN handlers :
        handlers[i].pc = "responded" =>
            /\ Len(handlers[i].responses) = 1
            /\ handlers[i].responses[1] =
                  SoloResponse(handlers[i].req, plantData, model, handlers[i].nasaSeen,
                               handlers[i].owSeen, handlers[i].soil.log, handlers[i].geminiSeen)
            /\ (handlers[i].responses[1].status = "200" =>
                  LET d == handlers[i].responses[1].data_summary[1]
                  IN /\ d.userInput.planDescription = handlers[i].req.planDescription
                     /\ d.userInput.latitude = handlers[i].req.latitude
                     /\ EqualIgnoringCase(d.plant_requirements, handlers[i].req.plantScientificName)
                     /\ d.location_conditions.nasa_power = handlers[i].nasa.res[1]
                     /\ d.location_conditions.open_weather = handlers[i].ow.res[1]
                     /\ d.location_conditions.soil_type_probabilities = handlers[i].soil.res[1])

\* a step of one invocation leaves the locals of the other as they are
OneInvocationPerStep ==
    \A i, j \in DOMAIN handlers :
        i # j /\ handlers'[i] # handlers[i] => handlers'[j] = handlers[j]

\* C25: requests are handled independently: for two requests processed side by
\* side in any interleaving of their client completions, backoff sleeps and
\* analysis calls, the response to each holds the user input, species record,
\* source results and analysis of that request only, and is the response it would
\* get alone with the same provider outcomes.
C25_RequestsIndependent == []AnsweredAsAlone /\ [][OneInvocationPerStep]_vars

\* the first request was answered after a soil retry while the second, for other
\* coordinates and another plan, sleeps between two soil attempts
C25_Witness ==
    /\ handlers[1].pc = "responded"
    /\ handlers[1].responses[1].status = "200"
    /\ Len(handlers[1].soil.sleeps) = 1
    /\ handlers[1].req.latitude = Num(10)
    /\ handlers[2].pc = "fetching"
    /\ handlers[2].req.latitude = Num(20)
    /\ handlers[2].soil.st = "sleeping"
    /\ handlers[2].req.planDescription # handlers[1].req.planDescription

\* the record, once built, is the one built from the request, the species record
\* and the three results, and the one the analysis and the response get
RecordBuiltOnce ==
    /\ (aggregatedData # <<>> =>
          /\ aggregatedData = <<AggregatedData(req, plantInfo[1], nasa.res[1], ow.res[1],
                                               soil.res[1])>>
          /\ analysisArg = aggregatedData)
    /\ \A i \in 1..Len(responses) :
          responses[i].status = "200" => responses[i].data_summary = analysisArg

\* the analysis call returns without having changed the record it was given
AnalysisOnlyReads ==
    \A g \in ServerGeminiOutcomes :
        GeminiSettles(g) =>
            /\ aggregatedData' = aggregatedData
            /\ analysisArg' = analysisArg
            /\ responses'[Len(responses')].data_summary = analysisArg

\* C26: the aggregated record is built once per request and not modified
\* afterwards: the record returned in the response is identical to the record
\* passed to getAnalysisFromGemini, which only reads it.
C26_RecordUnchangedAfterBuild == []RecordBuiltOnce /\ [][AnalysisOnlyReads]_vars

\* the analysis succeeded on a record whose NASA slot is an error object, and the
\* response carries that record
C26_Witness ==
    /\ pc = "responded"
    /\ gemini # <<>>
    /\ responses[1].ai_analysis[1].success
    /\ analysisArg # <<>>
    /\ analysisArg[1].location_conditions.nasa_power.tag = "error"
    /\ responses[1].data_summary = analysisArg

\* a list on display was computed by handlePlantInput from the text of the box
ListIsOfInput ==
    plantSuggestions # <<>> =>
        /\ ToLowerCase(Trim(plantSearchInput)) # <<>>
        /\ plantSuggestions = ScanPlants(allPlants, 1, ToLowerCase(Trim(plantSearchInput)),
                                         <<>>, {})

\* the lookup again for the name just looked up, the table being loaded
LookupAgain ==
    \A b \in Bodies :
        (PostCombinedData(b) /\ pc = "responded" /\ ~ValidationFails(b) /\ ~ValidationFails(req)
            /\ b.plantScientificName = req.plantScientificName) =>
                /\ plantInfo' = plantInfo
                /\ plantData' = plantData
                /\ (plantInfo = <<>> => responses' = responses)

\* handlePlantInput again for the text it has just been run with
SuggestAgain ==
    \A text \in SearchInputs :
        HandlePlantInput(text) =>
            /\ allPlants' = allPlants
            /\ plantData' = plantData
            /\ (text = plantSearchInput /\ plantSuggestions # <<>> =>
                  plantSuggestions' = plantSuggestions)
            /\ plantSuggestions' = IF ToLowerCase(Trim(text)) = <<>> THEN <<>>
                                   ELSE ScanPlants(allPlants, 1, ToLowerCase(Trim(text)), <<>>, {})

---------------------------------------------------------------------------
(* Analyzepage.vue, the analysis modal: triggerAnalysis posts the form and,  *)
(* when a successful analysis arrives, parseAndSetScores reads the two       *)
(* scores out of its text with two regular expressions.                      *)

\* \s of the regular expressions, on the characters the texts are made of
IsSpace(c) == c \in {" ", "\n"}

\* the literal w stands at position k of s
LitAt(s, k, w) ==
    /\ k >= 1
    /\ k + Len(w) - 1 <= Len(s)
    /\ SubSeq(s, k, k + Len(w) - 1) = w

\* \s*: the first position from k on that holds no white space
SkipSpaces(s, k) ==
    LET stops == {i \in k..Len(s) : ~IsSpace(s[i])}
    IN IF stops = {} THEN Len(s) + 1
       ELSE CHOOSE i \in stops : \A j \in stops : i <= j

\* (\d+): the first position from k on that holds no digit
DigitRunEnd(s, k) ==
    LET stops == {i \in k..Len(s) : s[i] \notin Digits}
    IN IF stops = {} THEN Len(s) + 1
       ELSE CHOOSE i \in stops : \A j \in stops : i <= j

ScoreWord == <<"s", "c", "o", "r", "e">>

OutOfTen == <<"/", "1", "0">>

\* the tail  \s*:\s*(\d+)\/10  matched at position k: the digits captured, or
\* nothing when the tail does not match there
ScoreTailAt(s, k) ==
    LET colon == SkipSpaces(s, k)
        first == SkipSpaces(s, colon + 1)
        last == DigitRunEnd(s, first)
    IN IF /\ colon <= Len(s)
          /\ s[colon] = ":"
          /\ last > first
          /\ LitAt(s, last, OutOfTen)
       THEN SubSeq(s, first, last - 1)
       ELSE <<>>

\* String.prototype.match with /<heading>.*?Score\s*:\s*(\d+)\/10/is : group 1
\* of the leftmost match, the lazy .*? (which crosses line ends under the s
\* flag) stopping at the first "Score" the tail matches after; nothing when
\* there is no match. The i flag makes the letters match in either case.
ScoreRegexCapture(text, heading) ==
    LET lower == ToLowerCase(text)
        TailsAfter(i) == {j \in i + Len(heading)..Len(text) :
                             /\ LitAt(lower, j, ScoreWord)
                             /\ ScoreTailAt(text, j + Len(ScoreWord)) # <<>>}
        starts == {i \in 1..Len(text) :
                      /\ LitAt(lower, i, ToLowerCase(heading))
                      /\ TailsAfter(i) # {}}
    IN IF starts = {} THEN <<>>
       ELSE LET i == CHOOSE a \in starts : \A b \in starts : a <= b
                j == CHOOSE a \in TailsAfter(i) : \A b \in TailsAfter(i) : a <= b
            IN ScoreTailAt(text, j + Len(ScoreWord))

\* parseInt(group, 10) of a matched group, null when there was no match
ScoreOf(group) == IF group = <<>> THEN Null ELSE ParseFloatText(group)

FeasibilityHeading == <<"F", "e", "a", "s", "i", "b", "i", "l", "i", "t", "y", " ", "S", "c", "o", "r", "e">>

SustainabilityHeading == <<"S", "u", "s", "t", "a", "i", "n", "a", "b", "i", "l", "i", "t", "y", " ", "S", "c", "o", "r", "e">>

\* "(1-10)" as the system instruction writes it after the heading
RangeSuffix == <<" ", "(", "1", "-", "1", "0", ")">>

\* the layouts of a score under its heading: "blank" is a blank line and then
\* X/10, "indented" is the same with the two spaces of the system instruction,
\* "labelled" is a line "Score: X/10"
Layouts == {"blank", "indented", "labelled"}

ScoreLine(layout, x) ==
    CASE layout = "blank" -> <<"\n", "\n">> \o x \o OutOfTen
      [] layout = "indented" -> <<"\n", "\n", " ", " ">> \o x \o OutOfTen
      [] layout = "labelled" -> <<"\n", "S", "c", "o", "r", "e", ":", " ">> \o x \o OutOfTen

\* the headings a text may carry for one score
HeadingsOf(heading) ==
    {heading, ToLowerCase(heading), heading \o RangeSuffix, ToLowerCase(heading) \o RangeSuffix}

\* the scores written in the texts
ScoreTexts == {<<"7">>, <<"1", "0">>, <<"0">>}

SustainabilityText == <<"6">>

\* what follows the feasibility section: nothing, or a sustainability section
Remainders ==
    {<<>>} \cup {<<"\n">> \o SustainabilityHeading \o ScoreLine(l, SustainabilityText) :
                    l \in Layouts}

\* the analysis texts the page is explored with
AnalysisTexts ==
    {h \o ScoreLine(l, x) \o r :
        h \in HeadingsOf(FeasibilityHeading), l \in Layouts, x \in ScoreTexts, r \in Remainders}

\* response.data.ai_analysis as the page reads it
Analysis(success, text) == [success |-> success, analysis_text |-> text]

AnalysisResults ==
    {Analysis(TRUE, t) : t \in AnalysisTexts \cup {<<>>}} \cup {Analysis(FALSE, <<>>)}

\* parseAndSetScores
ParseAndSetScores(analysisText) ==
    IF analysisText = <<>>
    THEN UNCHANGED <<feasibilityScore, sustainabilityScore>>
    ELSE /\ feasibilityScore' = ScoreOf(ScoreRegexCapture(analysisText, FeasibilityHeading))
         /\ sustainabilityScore' = ScoreOf(ScoreRegexCapture(analysisText, SustainabilityHeading))

\* the payload of the request, as far as the plant goes
AnalysisPayload(name) == [plantScientificName |-> name]

\* triggerAnalysis up to its await: the button is disabled while a request is
\* in flight, and the handler returns at once when no plant is selected (the
\* description and the coordinates of the form are taken as filled in)
TriggerAnalysis ==
    /\ ~isLoadingAnalysis
    /\ plant # <<>>
    /\ isLoadingAnalysis' = TRUE
    /\ showAnalysisModal' = TRUE
    /\ analysisResult' = <<>>
    /\ feasibilityScore' = Null
    /\ sustainabilityScore' = Null
    /\ analysisPosts' = Append(analysisPosts, AnalysisPayload(plant))
    /\ UNCHANGED <<allPlants, plantsFetched, plantSearchInput, plant, plantSuggestions,
                   showPlantSuggestions>>
    /\ UNCHANGED serverVars
    /\ UNCHANGED homeVars

\* the requests in flight without the i-th
Settled(posts, i) == SubSeq(posts, 1, i - 1) \o SubSeq(posts, i + 1, Len(posts))

\* triggerAnalysis from its await on, when the request is answered with a
\* success status: the response is kept, the scores are parsed when the
\* analysis succeeded, and the finally block ends the loading
AnalysisArrives(result) ==
    /\ \E i \in 1..Len(analysisPosts) : analysisPosts' = Settled(analysisPosts, i)
    /\ analysisResult' = <<result>>
    /\ IF result.success
       THEN ParseAndSetScores(result.analysis_text)
       ELSE UNCHANGED <<feasibilityScore, sustainabilityScore>>
    /\ isLoadingAnalysis' = FALSE
    /\ UNCHANGED showAnalysisModal
    /\ UNCHANGED <<allPlants, plantsFetched, plantSearchInput, plant, plantSuggestions,
                   showPlantSuggestions>>
    /\ UNCHANGED serverVars
    /\ UNCHANGED homeVars

\* a catch block that is not followed by the finally block
AnalysisFailsStillLoading ==
    /\ \E i \in 1..Len(analysisPosts) : analysisPosts' = Settled(analysisPosts, i)
    /\ analysisResult' = <<Analysis(FALSE, <<>>)>>
    /\ UNCHANGED <<feasibilityScore, sustainabilityScore, isLoadingAnalysis, showAnalysisModal>>
    /\ UNCHANGED <<allPlants, plantsFetched, plantSearchInput, plant, plantSuggestions,
                   showPlantSuggestions>>
    /\ UNCHANGED serverVars
    /\ UNCHANGED homeVars

\* triggerAnalysis from its await on, when axios.post rejects (an error status
\* or no response at all): the catch block stores a failed analysis and the
\* finally block ends the loading
AnalysisFails ==
    /\ \E i \in 1..Len(analysisPosts) : analysisPosts' = Settled(analysisPosts, i)
    /\ analysisResult' = <<Analysis(FALSE, <<>>)>>
    /\ isLoadingAnalysis' = FALSE
    /\ UNCHANGED <<feasibilityScore, sustainabilityScore, showAnalysisModal>>
    /\ UNCHANGED <<allPlants, plantsFetched, plantSearchInput, plant, plantSuggestions,
                   showPlantSuggestions>>
    /\ UNCHANGED serverVars
    /\ UNCHANGED homeVars

\* closeAnalysisModal, offered while the modal is shown
CloseAnalysisModal ==
    /\ showAnalysisModal
    /\ showAnalysisModal' = FALSE
    /\ analysisResult' = <<>>
    /\ feasibilityScore' = Null
    /\ sustainabilityScore' = Null
    /\ UNCHANGED <<isLoadingAnalysis, analysisPosts>>
    /\ UNCHANGED <<allPlants, plantsFetched, plantSearchInput, plant, plantSuggestions,
                   showPlantSuggestions>>
    /\ UNCHANGED serverVars
    /\ UNCHANGED homeVars

\* the form is filled in from a three-row table by typing one letter
FormTable == SubSeq(PlantRows, 1, 3)

FormInput == <<"Z">>

NextScores ==
    \/ FetchAllPlants(FormTable)
    \/ HandlePlantInput(FormInput)
    \/ \E k \in 1..MaxSuggestions : SelectPlantSuggestion(k)
    \/ TriggerAnalysis
    \/ \E result \in AnalysisResults : AnalysisArrives(result)
    \/ AnalysisFails
    \/ CloseAnalysisModal

SpecScores == InitPage /\ [][NextScores]_vars

\* C28: when a successful analysis arrives whose text carries the heading
\* 'Feasibility Score', a blank line, then 'X/10' (the layout the analysis
\* backend is instructed to produce), parseAndSetScores sets feasibilityScore
\* to X; the text of scenario A yields 7.
InstructedTexts(x) ==
    {h \o ScoreLine(l, x) \o r :
        h \in HeadingsOf(FeasibilityHeading), l \in {"blank", "indented"}, r \in Remainders}

ScenarioAText == FeasibilityHeading \o ScoreLine("blank", <<"7">>)

C28_InstructedLayoutGivesScore ==
    [][\A x \in ScoreTexts : \A t \in InstructedTexts(x) :
          AnalysisArrives(Analysis(TRUE, t)) => feasibilityScore' = ParseFloatText(x)]_vars

\* the same for the text of scenario A alone
C28_ScenarioAGivesSeven ==
    [][AnalysisArrives(Analysis(TRUE, ScenarioAText)) => feasibilityScore' = Num(7)]_vars

\* what the code does with the instructed layout: no score is found under the
\* heading, and the score of a later "Score:" line is taken in its place
C28_InstructedLayoutGivesOtherScore ==
    [][\A x \in ScoreTexts : \A t \in InstructedTexts(x) :
          AnalysisArrives(Analysis(TRUE, t)) =>
              feasibilityScore' \in {Null, ParseFloatText(SustainabilityText)}]_vars

\* the layout the regular expression was written for gives the score
C28_LabelledLayoutGivesScore ==
    [][\A x \in ScoreTexts : \A r \in Remainders : \A h \in HeadingsOf(FeasibilityHeading) :
          AnalysisArrives(Analysis(TRUE, h \o ScoreLine("labelled", x) \o r)) =>
              feasibilityScore' = ParseFloatText(x)]_vars

C28_SixForSeven ==
    /\ analysisResult # <<>>
    /\ analysisResult[1].success
    /\ analysisResult[1].analysis_text \in InstructedTexts(<<"7">>)
    /\ feasibilityScore = Num(6)

\* the response sent is the not-found response
NotFoundSent(sent) == sent # <<>> /\ sent[1].status = "404"

\* C29: a request for a scientific name that is present in the CSV file never
\* receives the not-found response, whatever the interleaving of the request
\* with the rows being appended at startup.
C29_PresentNameNeverNotFound ==
    [][\A b \in Bodies :
        (PostCombinedData(b) /\ RecordsNamed(LoadedTable, b.plantScientificName) # {}) =>
            ~NotFoundSent(responses')]_vars

\* once every row has been appended, a name of the file is always found
C29_PresentNameFoundAfterLoad ==
    [][\A b \in Bodies :
        (/\ PostCombinedData(b)
         /\ csvPos = Len(CsvFile)
         /\ RecordsNamed(LoadedTable, b.plantScientificName) # {}) =>
            ~NotFoundSent(responses')]_vars

\* a name of the file answered with not-found while rows are still to come
C29_NotFoundDuringLoad ==
    /\ csvPos < Len(CsvFile)
    /\ NotFoundSent(responses)
    /\ RecordsNamed(LoadedTable, req.plantScientificName) # {}

\* the coordinates the handler hands to each of the three clients
ClientLatitude(b) == ParseFloat(b.latitude)

ClientLongitude(b) == ParseFloat(b.longitude)

\* the request started the three client calls
ClientsCalled(c) == c.nasa > 0 /\ c.ow > 0 /\ c.soil > 0

\* C30: every call of fetchNasaPowerAPI, fetchOpenWeatherAPI and
\* fetchSoilAPIWithRetry issued by the handler receives a numeric latitude and
\* a numeric longitude: a request whose latitude or longitude is present but
\* not a number never reaches a client with a not-a-number coordinate.
C30_ClientsGetNumericCoordinates ==
    [][\A b \in Bodies :
        (PostCombinedData(b) /\ ClientsCalled(calls')) =>
            /\ ClientLatitude(b).t = "number"
            /\ ClientLongitude(b).t = "number"]_vars

\* a coordinate that is a number in the body reaches the clients as it is, and
\* only a missing (undefined) coordinate stops the request at validation
C30_OnlyMissingCoordinateRejected ==
    [][\A b \in Bodies :
        PostCombinedData(b) =>
            /\ (ClientsCalled(calls') =>
                    /\ b.latitude.t # "undefined" /\ b.longitude.t # "undefined"
                    /\ (b.latitude.t = "number" => ClientLatitude(b) = b.latitude)
                    /\ (b.longitude.t = "number" => ClientLongitude(b) = b.longitude))
            /\ (b.latitude.t = "undefined" \/ b.longitude.t = "undefined" =>
                    responses'[1].status = "400")]_vars

\* the clients are running for a request whose latitude is null
C30_CalledWithNaN ==
    /\ pc = "fetching"
    /\ ClientsCalled(calls)
    /\ req.latitude = Null
    /\ ClientLatitude(req) = NaN

\* the body carries every field and a name that is truthy but not a string
NameNotAString(b) ==
    /\ b.latitude.t # "undefined"
    /\ b.longitude.t # "undefined"
    /\ Truthy(b.planDescription)
    /\ Truthy(b.plantScientificName)
    /\ b.plantScientificName.t # "string"

\* C31: a request whose plantScientificName is present and truthy but not a
\* string passes the validation, fails in the species lookup when toLowerCase
\* is called on it, and is answered with the 500 response, not the 400
\* response; no source client and no analysis call is made for it.
C31_NonStringNameGivesServerError ==
    [][\A b \in Bodies :
        (PostCombinedData(b) /\ NameNotAString(b)) =>
            /\ ~ValidationFails(b)
            /\ Len(responses') = 1
            /\ responses'[1].status = "500"
            /\ NoClientCalled(calls')
            /\ calls'.analysis = 0
            /\ gemini' = <<>>]_vars

\* what the code does with such a name: toLowerCase is called on it only when
\* the table holds a record with a scientific name, and the answer is the 500
\* response then and the not-found response otherwise; it is never the 400
\* response and no call is made
C31_NonStringNameGivesServerErrorOrNotFound ==
    [][\A b \in Bodies :
        (PostCombinedData(b) /\ NameNotAString(b)) =>
            /\ ~ValidationFails(b)
            /\ Len(responses') = 1
            /\ responses'[1].status =
                  (IF \E i \in 1..Len(plantData) : Truthy(plantData[i].ScientificName)
                   THEN "500" ELSE "404")
            /\ (csvPos = Len(CsvFile) => responses'[1].status = "500")
            /\ NoClientCalled(calls')
            /\ calls'.analysis = 0
            /\ gemini' = <<>>]_vars

\* a number sent as the name is answered with not-found
C31_NumberNameNotFound ==
    /\ NameNotAString(req)
    /\ NotFoundSent(responses)

\* the attempt ended in one of the two failure branches of the loop body
AttemptFailed(o) == o.kind = "bad" \/ SoilThrows(o)

RECURSIVE TotalSleep(_)
TotalSleep(sleeps) ==
    IF sleeps = <<>> THEN 0 ELSE sleeps[1] + TotalSleep(Tail(sleeps))

\* 1 + 2 + ... + (n - 1)
SumBelow(n) == (n * (n - 1)) \div 2

\* C32: in fetchSoilAPIWithRetry with ceiling N the k-th backoff sleep lasts
\* k x unit and happens only between failed attempt k and attempt k + 1, for
\* k < N; no sleep follows the last attempt, so a provider that fails every
\* time costs exactly N attempts and a total sleep of unit x (1 + ... + (N-1)),
\* and the call returns at the N-th failure without sleeping.
C32_BackoffOnlyBetweenAttempts ==
    /\ \A k \in 1..Len(soil.sleeps) :
          /\ soil.sleeps[k] = k * BackoffUnit
          /\ k < soil.retries
          /\ k <= Len(soil.log)
          /\ AttemptFailed(soil.log[k])
    /\ (soil.st = "sleeping" =>
          /\ Len(soil.sleeps) = Len(soil.log)
          /\ soil.fetches = Len(soil.log))
    /\ (soil.st = "pending" =>
          /\ Len(soil.sleeps) = Len(soil.log)
          /\ soil.fetches = Len(soil.log) + 1)
    /\ (soil.st = "fulfilled" /\ soil.retries >= 1 =>
          /\ Len(soil.sleeps) = Len(soil.log) - 1
          /\ soil.fetches = Len(soil.log))
    /\ (soil.retries = 0 => soil.st = "fulfilled" /\ soil.fetches = 0 /\ soil.sleeps = <<>>)
    /\ ((\A i \in 1..Len(soil.log) : AttemptFailed(soil.log[i])) /\ Len(soil.log) = soil.retries =>
          /\ soil.st = "fulfilled"
          /\ soil.fetches = soil.retries
          /\ TotalSleep(soil.sleeps) = BackoffUnit * SumBelow(soil.retries))

\* three failed attempts under ceiling 3: two sleeps, of one and of two units,
\* and the call has returned
C32_Witness ==
    /\ soil.retries = 3
    /\ Len(soil.log) = 3
    /\ \A i \in 1..3 : AttemptFailed(soil.log[i])
    /\ soil.st = "fulfilled"
    /\ soil.sleeps = <<BackoffUnit, 2 * BackoffUnit>>

\* C33: in the analyze page isLoadingAnalysis is true exactly while a request
\* sent by triggerAnalysis is in flight: it is true from before the request is
\* sent and false again after every completion (a response, an error status,
\* a network failure); the button being disabled while it is true, at most one
\* analysis request is in flight at any time.
C33_LoadingExactlyWhileInFlight ==
    /\ isLoadingAnalysis <=> analysisPosts # <<>>
    /\ Len(analysisPosts) <= 1

\* a request has failed and the loading is over, with nothing in flight
C33_Witness ==
    /\ analysisResult # <<>>
    /\ ~analysisResult[1].success
    /\ ~isLoadingAnalysis
    /\ analysisPosts = <<>>
    /\ showAnalysisModal

\* nothing of an analysis is kept
AnalysisCleared ==
    /\ analysisResult = <<>>
    /\ feasibilityScore = Null
    /\ sustainabilityScore = Null

\* C34: in the analyze page, whenever the analysis modal is closed,
\* analysisResult, feasibilityScore and sustainabilityScore are all null, in
\* every interleaving, also when closeAnalysisModal runs while a request is in
\* flight and the response arrives afterwards.
C34_ClosedModalHoldsNothing == ~showAnalysisModal => AnalysisCleared

\* what the code keeps: the modal is closed with everything cleared, and a
\* closed modal comes to hold a result only by a request settling after the
\* close
C34_ClosedModalFilledOnlyByLateAnswer ==
    [][/\ (CloseAnalysisModal => AnalysisCleared')
       /\ (~showAnalysisModal' /\ ~AnalysisCleared' /\ AnalysisCleared =>
              /\ ~showAnalysisModal
              /\ Len(analysisPosts') < Len(analysisPosts))]_vars

\* the modal was closed during the request and the answer has filled the result
\* and a score
C34_LateAnswerKept ==
    /\ ~showAnalysisModal
    /\ ~isLoadingAnalysis
    /\ analysisResult # <<>>
    /\ analysisResult[1].success
    /\ feasibilityScore = Num(7)

\* the payload of the request sent last
LastPost(posts) == posts[Len(posts)]

\* C35: in the analyze page the selected plant is either empty or equal to the
\* text of the plant search input after any sequence of handlePlantInput and
\* selectPlantSuggestion events, so that whenever triggerAnalysis sends a
\* request the plantScientificName it sends is the text shown in the input.
C35_SentPlantIsShownText ==
    /\ [](plant = <<>> \/ plant = plantSearchInput)
    /\ [][TriggerAnalysis =>
            LastPost(analysisPosts').plantScientificName = plantSearchInput]_vars

\* what the code keeps: the name sent is the selected plant, the selection
\* equals the input right after selectPlantSuggestion, and it parts from the
\* input only by text typed afterwards, which clears it only when blank
C35_SentPlantIsSelection ==
    [][/\ (TriggerAnalysis => LastPost(analysisPosts').plantScientificName = plant)
       /\ ((\E k \in 1..MaxSuggestions : SelectPlantSuggestion(k)) =>
              plant' # <<>> /\ plant' = plantSearchInput')
       /\ (plant' # plantSearchInput' /\ plant' # <<>> =>
              \/ plant' = plant /\ plantSearchInput' = plantSearchInput
              \/ plant' = plant /\ Trim(plantSearchInput') # <<>>)]_vars

\* a request is in flight for a plant that is not the text in the input
C35_SentOtherThanShown ==
    /\ analysisPosts # <<>>
    /\ LastPost(analysisPosts).plantScientificName = <<"Z", "a">>
    /\ plantSearchInput = <<"Z">>
    /\ plant = <<"Z", "a">>

---------------------------------------------------------------------------
(* Homepage.vue: the location box. Every input event restarts a 300 ms timer; *)
(* when the timer fires, the text then in the box is sent to the geocoder,    *)
(* and the answer replaces the suggestions.                                   *)

\* the fewest characters, after trimming, for which suggestions are fetched
MinLocationLength == 3

\* the most geocoding requests issued in one exploration
MaxQueries == 3

\* the text is too short for suggestions
TooShort(text) == text = <<>> \/ Len(Trim(text)) < MinLocationLength

\* the texts typed in the box
LocationInputs ==
    {<<>>, <<"C", "e">>, <<" ", "C", "e", " ">>, <<"C", "e", "b">>, <<"C", "e", "b", "u">>}

\* a feature of the geocoder's answer
Feature == [place_name |-> <<"C", "e", "b", "u", " ", "C", "i", "t", "y">>]

\* what a geocoding request ends with: features, no feature, or a failure of
\* fetch or of res.json()
GeoOutcomes == {"features", "empty", "error"}

\* the suggestions the callback stores for an outcome
SuggestionsFor(outcome) == IF outcome = "features" THEN <<Feature>> ELSE <<>>

\* a handle for a new timer: handles are told apart only while the timer is
\* pending, so the least one not pending is taken
NewTimer(pending) == CHOOSE id \in 1..(Cardinality(pending) + 1) :
                        /\ id \notin pending
                        /\ \A other \in 1..(id - 1) : other \in pending

\* clearTimeout(handle)
ClearTimeout(pending, handle) == pending \ {handle}

\* an input event of the box: v-model stores the text, then
\* fetchLocationSuggestions runs up to its return
FetchLocationSuggestions(text) ==
    /\ location' = text
    /\ IF TooShort(text)
       THEN /\ timers' = ClearTimeout(timers, debounceTimer)
            /\ suggestions' = <<>>
            /\ UNCHANGED debounceTimer
       ELSE /\ debounceTimer' = NewTimer(ClearTimeout(timers, debounceTimer))
            /\ timers' = ClearTimeout(timers, debounceTimer) \cup {debounceTimer'}
            /\ UNCHANGED suggestions
    /\ UNCHANGED <<geoRequests, geoIssued, suggestionsOf>>
    /\ UNCHANGED <<serverVars, analyzeVars>>

\* a pending timer fires: the callback sends the text now in the box
DebounceFires(id) ==
    /\ id \in timers
    /\ geoIssued < MaxQueries
    /\ timers' = timers \ {id}
    /\ geoIssued' = geoIssued + 1
    /\ geoRequests' = geoRequests \cup {[seq |-> geoIssued + 1, query |-> location]}
    /\ UNCHANGED <<location, suggestions, debounceTimer, suggestionsOf>>
    /\ UNCHANGED <<serverVars, analyzeVars>>

\* the request r settles: the callback resumes and stores the suggestions
GeocodingAnswers(r, outcome) ==
    /\ r \in geoRequests
    /\ geoRequests' = geoRequests \ {r}
    /\ suggestions' = SuggestionsFor(outcome)
    /\ suggestionsOf' = r.seq
    /\ UNCHANGED <<location, debounceTimer, timers, geoIssued>>
    /\ UNCHANGED <<serverVars, analyzeVars>>

\* selectSuggestion, for an entry of the list shown
SelectSuggestion(k) ==
    /\ k \in 1..Len(suggestions)
    /\ location' = suggestions[k].place_name
    /\ suggestions' = <<>>
    /\ UNCHANGED <<debounceTimer, timers, geoRequests, geoIssued, suggestionsOf>>
    /\ UNCHANGED <<serverVars, analyzeVars>>

NextHome ==
    \/ \E text \in LocationInputs : FetchLocationSuggestions(text)
    \/ \E id \in timers : DebounceFires(id)
    \/ \E r \in geoRequests : \E outcome \in GeoOutcomes : GeocodingAnswers(r, outcome)
    \/ \E k \in 1..Len(suggestions) : SelectSuggestion(k)

SpecHome == InitPage /\ [][NextHome]_vars

\* C36: in the home page, whenever the trimmed location text has fewer than 3
\* characters the suggestions list is empty, in every interleaving of input
\* events, timer firings and geocoding answers, also for an answer that
\* arrives after the text was shortened.
C36_ShortTextNoSuggestions == TooShort(location) => suggestions = <<>>

\* what the code keeps: an input event leaving a short text empties the list
\* and leaves no timer pending, and a list under a short text comes only from
\* the answer of a request issued before
C36_ShortTextClearsListAndTimer ==
    [][/\ ((\E text \in LocationInputs : FetchLocationSuggestions(text)) /\ TooShort(location') =>
              suggestions' = <<>> /\ timers' = {})
       /\ (TooShort(location') /\ suggestions' # <<>> /\ suggestions = <<>> =>
              \E r \in geoRequests : r \notin geoRequests')]_vars

\* suggestions are shown under a text of two characters
C36_ListUnderShortText ==
    /\ location = <<"C", "e">>
    /\ suggestions = <<Feature>>

\* C37: in the home page at most one debounce timer is pending at any time,
\* and the suggestions list reflects the most recently issued geocoding
\* query: the answer to an older query, arriving after the answer to a newer
\* one, never overwrites the newer suggestions.
C37_OneTimerAndNewestAnswerKept ==
    /\ [](Cardinality(timers) <= 1)
    /\ [][\A r \in geoRequests : \A outcome \in GeoOutcomes :
            (GeocodingAnswers(r, outcome) /\ r.seq < suggestionsOf) =>
                suggestions' = suggestions /\ suggestionsOf' = suggestionsOf]_vars

\* what the code keeps: one pending timer at most, whose handle is the one
\* kept, and the list is that of the answer that arrived last, whatever the
\* order in which the requests were issued
C37_OneTimerAndLastArrivalKept ==
    /\ [](Cardinality(timers) <= 1 /\ timers \subseteq {debounceTimer})
    /\ [][\A r \in geoRequests : \A outcome \in GeoOutcomes :
            GeocodingAnswers(r, outcome) =>
                suggestions' = SuggestionsFor(outcome) /\ suggestionsOf' = r.seq]_vars

\* the answer of the first request was stored after the answer of the second
C37_OlderAnswerShown ==
    /\ geoIssued >= 2
    /\ suggestionsOf = 1
    /\ \A r \in geoRequests : r.seq > 2
    /\ suggestions = <<Feature>>
====
